---- MODULE Spec2Model ----
(***************************************************************************)
(* Job/state orchestration of the video pipeline: the project aggregate    *)
(* (project -> scenes[] -> assets, active_job, composition), the backend   *)
(* handlers that dispatch jobs and edit scenes, the cloud-function job     *)
(* executors, and the multi-clip video_jobs record of the video router.    *)
(*                                                                         *)
(* Every Firestore call is one step: the backend and the cloud functions   *)
(* are different processes, and none of the read-modify-write sequences    *)
(* in the source runs in a transaction.  The store keeps every document   *)
(* a write hands it, as the code expects.  Timestamps are left out, except *)
(* for active_job.started_at, of which only "is it None" is kept.          *)
(* Python's None is "" for strings, 0 for the composition and NoJob for    *)
(* an active job.                                                          *)
(***************************************************************************)
EXTENDS Integers, Sequences, FiniteSets, TLC

\* ------------------------------------------------------------------ bounds
MaxScenes == 2
MaxJobs == 2
MaxRequests == 2
MaxEdits == 1
MaxDeliveries == 2
MaxClips == 3
MaxPipelineJobs == 1
MaxSbScenes == 2
MaxSbRequests == 2
MaxCycles == 3
MaxMinutes == 12

\* ------------------------------------------------------------ input domains
Durations == {10}
GenerationError == "generation failed"
NoVideoError == "No video URL returned from Replicate"
SceneNotFoundError == "Scene not found in project"
UploadError == "Failed to upload to Storage"
\* is_job_stale, the default of threshold_minutes
DefaultThresholdMinutes == 5
MissingIdsError == "Missing project_id or scene_id"
NoImageError == "No image available for scene"
\* what ReplicateHandler.generate_video hands back: the public URL of its own
\* upload, or None ("")
PublicUrl == "https://storage.googleapis.com/bucket/video.mp4"
HttpUrls == {PublicUrl}
\* the URL under which the provider serves a generated video for a while
EphemeralUrl == "https://replicate.delivery/out/video.mp4"

VARIABLES
    project,    \* the document projects/{project_id}: [scenes, stats]
    jobs,       \* the Job Records of the *_generation_jobs collections, by id
    exec,       \* per Job Record: the executor invocation working on it
    req,        \* the backend request being handled
    nextScene,  \* scene ids handed out so far (uuid4 in the source)
    nextUuid,   \* job ids handed out by the backend handlers (uuid4)
    nReq,       \* scene edits and dispatch requests started
    genCalls,   \* calls of the generation capability, per Job Record
    uploads,    \* uploads to blob storage, per Job Record
    vjob,       \* the document video_jobs/{job_id} of the video router
    vproc,      \* position of _process_video_generation
    storyboard, \* the document storyboards/{id} and its scenes subcollection
    sbhist,     \* per storyboard scene: the tuples its document has held, in order
    ijobs,      \* the Job Records of image_generation_jobs, by id
    iexec,      \* per image Job Record: position of handle_image_generation
    sse,        \* the Live Update connection: scene_update_generator and its frames
    stale       \* a call of is_job_stale: its arguments and its result

aggVars == <<project, jobs, exec, req, nextScene, nextUuid, nReq, genCalls, uploads>>
clipVars == <<vjob, vproc>>
liveVars == <<storyboard, sbhist, ijobs, iexec, sse>>
vars == <<project, jobs, exec, req, nextScene, nextUuid, nReq, genCalls, uploads, vjob, vproc,
          storyboard, sbhist, ijobs, iexec, sse, stale>>

\* --------------------------------------------------------------- data model
NoJobId == <<"none">>
NoJob == [job_id |-> NoJobId, type |-> "none", status |-> "none", progress |-> 0,
          started_at |-> FALSE, error_message |-> ""]

SceneAssets == [video_path |-> "", composition_path |-> "", thumbnail_path |-> ""]

Scene(id) == [id |-> id, scene_number |-> 0, duration_seconds |-> 5, assets |-> SceneAssets,
              active_job |-> NoJob, composition |-> 0]

ModelFields == {"id", "scene_number", "duration_seconds", "assets", "active_job", "composition"}

ProjectStats == [total_scenes |-> 0, completed_scenes |-> 0]

\* the users of the API: the owner of the project and another user
Owner == "u1"
Users == {Owner, "u2"}

\* initialize_scenes, the number of placeholder scenes
InitialScenes == 6

\* projects/{project_id} after delete()
NoProject == [exists |-> FALSE, user_id |-> "", scenes |-> <<>>, stats |-> ProjectStats]

\* FirestoreService.create_project: the document of a new project
NewProject == [exists |-> TRUE, user_id |-> Owner, scenes |-> <<>>, stats |-> ProjectStats]

\* python dict.update: the keys of updates replace or extend those of d
DictUpdate(d, updates) == updates @@ d

SceneIds(scenes) == {scenes[i].id : i \in 1..Len(scenes)}

SceneIndex(scenes, scene_id) == CHOOSE i \in 1..Len(scenes) : scenes[i].id = scene_id

HasScene(doc, scene_id) == scene_id \in SceneIds(doc.scenes)

SceneOf(doc, scene_id) == doc.scenes[SceneIndex(doc.scenes, scene_id)]

is_scene_complete(scene) == scene.assets.video_path # "" /\ scene.assets.composition_path # ""

CompletedCount(scenes) == Cardinality({i \in 1..Len(scenes) : is_scene_complete(scenes[i])})

update_project_stats(p) ==
    [p EXCEPT !.stats = [total_scenes |-> Len(p.scenes),
                         completed_scenes |-> CompletedCount(p.scenes)]]

\* Project(**data): pydantic keeps the declared fields of each scene and
\* rejects an active_job whose started_at is None
ParseOK(doc) ==
    \A i \in 1..Len(doc.scenes) :
        doc.scenes[i].active_job = NoJob \/ doc.scenes[i].active_job.started_at

ParseScene(s) == [k \in ModelFields |-> s[k]]

get_project(doc) ==
    [doc EXCEPT !.scenes = [i \in 1..Len(doc.scenes) |-> ParseScene(doc.scenes[i])]]

\* ---------------------------------------------------------------- Job Records
JobRecord(coll, scene_id, scene_ids) ==
    [coll |-> coll, scene_id |-> scene_id, scene_ids |-> scene_ids, status |-> "pending",
     progress |-> 0, error_message |-> "", output |-> "", retry_count |-> 0, results |-> <<>>]

\* seen: the status the Job Record had when the generation call came back
IdleExec == [pc |-> "idle", stage |-> "none", snap |-> <<>>, video_url |-> "",
             storage_path |-> "", err |-> "", raised |-> "none", n |-> 0, seen |-> "none",
             idx |-> 0, serr |-> "", results |-> <<>>,
             before |-> [assets |-> SceneAssets, composition |-> 0, completed_scenes |-> 0]]

\* the answer of a dispatch handler: the HTTP status and, for a
\* GenerateVideoResponse, its success and job_id (code 0: none yet)
NoResponse == [code |-> 0, success |-> FALSE, job_id |-> NoJobId]

HttpError(code) == [NoResponse EXCEPT !.code = code]

GenerateVideoResponse(success, job_id) == [code |-> 200, success |-> success, job_id |-> job_id]

\* prior: the active_job the dispatch handler found on the scene; call, arg,
\* was and ret: the last call of cancel_job or retry_failed_job, the Job
\* Record it named, the status the record had and the boolean returned
\* user, num, returned: the user of the request, the scene_number of the
\* scene it adds, and whether the answer carries the project
IdleReq == [op |-> "idle", pc |-> "idle", user |-> "", sid |-> 0, num |-> 0, snap |-> NewProject,
            returned |-> FALSE,
            job_id |-> NoJobId, type |-> "none", prior |-> NoJob, resp |-> NoResponse,
            call |-> "none", arg |-> 0, was |-> "none", ret |-> "none"]

\* video_jobs/{job_id} before POST /api/video/generate has created it
NoVideoJob == [exists |-> FALSE, job_id |-> NoJobId, status |-> "pending", total_scenes |-> 0, completed_scenes |-> 0,
               failed_scenes |-> 0, progress_percent |-> 0, clips |-> <<>>, error |-> ""]

\* ------------------------------------------ storyboards and the live channel
\* the id initialize_storyboard gives its storyboard, and the id of the
\* project, under which the storyboards collection has no document
StoryboardId == "sb1"
ProjectId == "p1"

SceneGenerationStatus(image, video) == [image |-> image, video |-> video]

\* a scene as initialize_storyboard creates it
StoryboardScene(id) ==
    [id |-> id, state |-> "text", generation_status |-> SceneGenerationStatus("pending", "pending"),
     image_url |-> "", video_url |-> "", error_message |-> ""]

NoStoryboard == [exists |-> FALSE, scenes |-> <<>>]

\* scene_update_generator: the dict it compares and remembers per scene
current_state(scene) ==
    [state |-> scene.state, image_status |-> scene.generation_status.image,
     video_status |-> scene.generation_status.video, image_url |-> scene.image_url,
     video_url |-> scene.video_url, error |-> scene.error_message]

\* last_states.get(scene.id) of a scene the connection has not reported yet
NoState ==
    [state |-> "", image_status |-> "", video_status |-> "", image_url |-> "",
     video_url |-> "", error |-> ""]

\* the payload of a scene_update frame
SSESceneUpdate(scene) ==
    [scene_id |-> scene.id, state |-> scene.state, image_status |-> scene.generation_status.image,
     video_status |-> scene.generation_status.video, image_url |-> scene.image_url,
     video_url |-> scene.video_url, error |-> scene.error_message]

NoUpdate == [scene_id |-> 0] @@ NoState

\* a frame the generator yields; cycle: the poll cycle it was yielded in
Frame(type, cycle, data) == [type |-> type, cycle |-> cycle, data |-> data]

\* code: the HTTP status of the subscription (0: none asked for); at: where
\* the generator was suspended when the client went away
NoConnection ==
    [pc |-> "none", code |-> 0, id |-> "", last_states |-> [s \in 1..MaxSbScenes |-> NoState],
     scenes |-> <<>>, i |-> 0, events |-> <<>>, cycle |-> 0, reads |-> 0, seen |-> {},
     cancelled |-> FALSE, at |-> "none"]

NoStaleCall == [called |-> FALSE, status |-> "none", last_update |-> 0, now |-> 0, result |-> FALSE]

Init ==
    /\ project = NewProject
    /\ jobs = <<>>
    /\ exec = [j \in 1..MaxJobs |-> IdleExec]
    /\ req = IdleReq
    /\ nextScene = 1
    /\ nextUuid = 1
    /\ nReq = 0
    /\ genCalls = [j \in 1..MaxJobs |-> 0]
    /\ uploads = [j \in 1..MaxJobs |-> 0]
    /\ vjob = NoVideoJob
    /\ vproc = "none"
    /\ storyboard = NoStoryboard
    /\ sbhist = [s \in 1..MaxSbScenes |-> <<>>]
    /\ ijobs = <<>>
    /\ iexec = [j \in 1..MaxSbRequests |-> "idle"]
    /\ sse = NoConnection
    /\ stale = NoStaleCall

\* ------------------------------------------------------- backend: scene edits
\* FirestoreService.get_project with the security check switched off
Authorized_any_user(doc, user_id) == doc.exists

\* FirestoreService.get_project returns the project: the document exists and
\* its user_id is the user_id of the request
Authorized(doc, user_id) == doc.exists /\ doc.user_id = user_id

\* the handler raises HTTPException(404, "Project not found")
ProjectNotFound(user_id) == [IdleReq EXCEPT !.user = user_id, !.resp = HttpError(404)]

\* routers/projects.py add_scene for a user and the scene_number of the
\* body (0 without one), up to the get_project of FirestoreService.add_scene
add_scene_get(user_id, scene_number) ==
    /\ req.op = "idle"
    /\ nextScene' = IF Authorized(project, user_id) /\ ParseOK(project)
                    THEN nextScene + 1 ELSE nextScene
    /\ req' = IF ~Authorized(project, user_id) THEN ProjectNotFound(user_id)
              ELSE IF ParseOK(project)
              THEN [IdleReq EXCEPT !.op = "add_scene", !.pc = "write", !.user = user_id,
                                   !.sid = nextScene, !.num = scene_number,
                                   !.snap = get_project(project)]
              ELSE IdleReq
    /\ UNCHANGED <<project, jobs, exec, nextUuid, nReq, genCalls, uploads, vjob, vproc, liveVars, stale>>

\* FirestoreService.add_scene, first half: get_project (the owner's request)
add_scene_read ==
    /\ nextScene <= MaxScenes
    /\ add_scene_get(Owner, 0)

\* FirestoreService.add_scene, second half: append, update_project_stats, set
add_scene_write ==
    /\ req.op = "add_scene" /\ req.pc = "write"
    /\ project' = update_project_stats(
                      [req.snap EXCEPT !.scenes =
                          Append(@, [Scene(req.sid) EXCEPT !.scene_number = req.num])])
    /\ req' = IdleReq
    /\ UNCHANGED <<jobs, exec, nextScene, nextUuid, nReq, genCalls, uploads, vjob, vproc, liveVars, stale>>

\* FirestoreService.update_scene, first half: get_project and the edit of the
\* in-memory scene (the duration stands for title/description/duration)
update_scene_get(user_id, scene_id, duration) ==
    /\ req.op = "idle" /\ nReq < MaxEdits
    /\ nReq' = nReq + 1
    /\ req' = IF ~Authorized(project, user_id) THEN ProjectNotFound(user_id)
              ELSE IF ParseOK(project) /\ scene_id \in SceneIds(project.scenes)
              THEN LET p == get_project(project)
                       i == SceneIndex(p.scenes, scene_id)
                   IN [IdleReq EXCEPT !.op = "update_scene", !.pc = "write", !.user = user_id,
                          !.sid = scene_id,
                          !.snap = [p EXCEPT !.scenes[i].duration_seconds = duration]]
              ELSE IdleReq
    /\ UNCHANGED <<project, jobs, exec, nextScene, nextUuid, genCalls, uploads, vjob, vproc, liveVars, stale>>

\* the owner's request
update_scene_read(scene_id, duration) == update_scene_get(Owner, scene_id, duration)

\* FirestoreService.update_scene, second half: update_project_stats, set
update_scene_write ==
    /\ req.op = "update_scene" /\ req.pc = "write"
    /\ project' = update_project_stats(req.snap)
    /\ req' = IdleReq
    /\ UNCHANGED <<jobs, exec, nextScene, nextUuid, nReq, genCalls, uploads, vjob, vproc, liveVars, stale>>

\* ---------------------------------------------- backend: the project handlers
\* the answer 200 with the project in it
ProjectReturned(user_id) ==
    [IdleReq EXCEPT !.user = user_id, !.resp = [NoResponse EXCEPT !.code = 200], !.returned = TRUE]

\* except Exception: HTTPException(500)
ServerError(user_id) == [IdleReq EXCEPT !.user = user_id, !.resp = HttpError(500)]

\* routers/projects.py get_project
projects_get_project(user_id) ==
    /\ req.op = "idle"
    /\ req' = IF ~Authorized(project, user_id) THEN ProjectNotFound(user_id)
              ELSE IF ParseOK(project) THEN ProjectReturned(user_id)
              ELSE ServerError(user_id)
    /\ UNCHANGED <<project, jobs, exec, nextScene, nextUuid, nReq, genCalls, uploads, vjob, vproc, liveVars, stale>>

\* routers/projects.py update_project: after get_project,
\* FirestoreService.update_project reads request.storyboard, which
\* UpdateProjectRequest does not have, and the AttributeError becomes a 500
\* before the document is updated
projects_update_project(user_id) ==
    /\ req.op = "idle"
    /\ req' = IF ~Authorized(project, user_id) THEN ProjectNotFound(user_id)
              ELSE ServerError(user_id)
    /\ UNCHANGED <<project, jobs, exec, nextScene, nextUuid, nReq, genCalls, uploads, vjob, vproc, liveVars, stale>>

\* routers/projects.py delete_project: get_project, then delete()
projects_delete_project(user_id) ==
    /\ req.op = "idle"
    /\ IF ~Authorized(project, user_id)
       THEN req' = ProjectNotFound(user_id) /\ UNCHANGED project
       ELSE IF ParseOK(project)
       THEN /\ project' = NoProject
            /\ req' = [IdleReq EXCEPT !.user = user_id, !.resp = [NoResponse EXCEPT !.code = 200]]
       ELSE req' = ServerError(user_id) /\ UNCHANGED project
    /\ UNCHANGED <<jobs, exec, nextScene, nextUuid, nReq, genCalls, uploads, vjob, vproc, liveVars, stale>>

\* initialize_scenes_get without the check for existing scenes
initialize_scenes_get_unchecked(user_id) ==
    /\ req.op = "idle"
    /\ req' = IF ~Authorized(project, user_id) THEN ProjectNotFound(user_id)
              ELSE IF ~ParseOK(project) THEN ServerError(user_id)
              ELSE [IdleReq EXCEPT !.op = "initialize_scenes", !.pc = "add", !.user = user_id,
                                   !.num = 1]
    /\ UNCHANGED <<project, jobs, exec, nextScene, nextUuid, nReq, genCalls, uploads, vjob, vproc, liveVars, stale>>

\* routers/projects.py initialize_scenes up to the loop over the six scenes
\* it has made: get_project, and the project as it is when it has scenes
initialize_scenes_get(user_id) ==
    /\ req.op = "idle"
    /\ req' = IF ~Authorized(project, user_id) THEN ProjectNotFound(user_id)
              ELSE IF ~ParseOK(project) THEN ServerError(user_id)
              ELSE IF Len(project.scenes) > 0 THEN ProjectReturned(user_id)
              ELSE [IdleReq EXCEPT !.op = "initialize_scenes", !.pc = "add", !.user = user_id,
                                   !.num = 1]
    /\ UNCHANGED <<project, jobs, exec, nextScene, nextUuid, nReq, genCalls, uploads, vjob, vproc, liveVars, stale>>

\* initialize_scenes, one turn of the loop: FirestoreService.add_scene of
\* the scene with scene_number i + 1 (get_project, append,
\* update_project_stats, set); the project is returned after the sixth
initialize_scenes_add ==
    /\ req.op = "initialize_scenes" /\ req.pc = "add"
    /\ IF ~ParseOK(project)
       THEN /\ req' = ServerError(req.user)
            /\ UNCHANGED <<project, nextScene>>
       ELSE /\ project' = IF Authorized(project, req.user)
                          THEN update_project_stats(
                                   [get_project(project) EXCEPT !.scenes =
                                       Append(@, [Scene(nextScene) EXCEPT !.scene_number = req.num])])
                          ELSE project
            /\ nextScene' = nextScene + 1
            /\ req' = IF req.num = InitialScenes THEN ProjectReturned(req.user)
                      ELSE [req EXCEPT !.num = @ + 1]
    /\ UNCHANGED <<jobs, exec, nextUuid, nReq, genCalls, uploads, vjob, vproc, liveVars, stale>>

\* the SceneAssets a caller hands to FirestoreService.update_scene_assets
AssetInputs(scene_id) ==
    {[SceneAssets EXCEPT !.video_path = "projects/p/scenes/" \o ToString(scene_id) \o "/video.mp4"],
     [SceneAssets EXCEPT !.video_path = "projects/p/scenes/" \o ToString(scene_id) \o "/video.mp4",
                         !.composition_path = "projects/p/scenes/" \o ToString(scene_id) \o "/composition.json"],
     [SceneAssets EXCEPT !.thumbnail_path = "projects/p/scenes/" \o ToString(scene_id) \o "/thumbnail.png"]}

\* FirestoreService.update_scene_assets, first half: the read of the document
backend_update_scene_assets_read(scene_id, assets) ==
    /\ req.op = "idle"
    /\ req' = IF scene_id \in SceneIds(project.scenes)
              THEN [IdleReq EXCEPT !.op = "update_scene_assets", !.pc = "write", !.sid = scene_id,
                                   !.snap = [project EXCEPT
                                       !.scenes[SceneIndex(project.scenes, scene_id)] =
                                           DictUpdate(@, [assets |-> assets])]]
              ELSE IdleReq
    /\ UNCHANGED <<project, jobs, exec, nextScene, nextUuid, nReq, genCalls, uploads, vjob, vproc, liveVars, stale>>

\* FirestoreService.update_scene_assets, second half: the count of the
\* complete scenes and the update of scenes and stats.completed_scenes
backend_update_scene_assets_write ==
    /\ req.op = "update_scene_assets" /\ req.pc = "write"
    /\ project' = [project EXCEPT !.scenes = req.snap.scenes,
                                  !.stats.completed_scenes = CompletedCount(req.snap.scenes)]
    /\ req' = IdleReq
    /\ UNCHANGED <<jobs, exec, nextScene, nextUuid, nReq, genCalls, uploads, vjob, vproc, liveVars, stale>>

\* ------------------------------------------------------ backend: job dispatch
\* Job Records created so far or about to be created by the request in flight
JobsReserved == Len(jobs) + (IF req.op = "generate_composition" THEN 1 ELSE 0)

ActiveJob(job_id, type) ==
    [job_id |-> job_id, type |-> type, status |-> "queued", progress |-> 0,
     started_at |-> TRUE, error_message |-> ""]

\* routers/projects.py generate_video up to the creation of the ActiveJob
generate_video_get(user_id, scene_id, force_regenerate) ==
    /\ req.op = "idle" /\ nReq < MaxRequests
    /\ nReq' = nReq + 1
    /\ IF ~Authorized(project, user_id)
       THEN /\ req' = ProjectNotFound(user_id)
            /\ UNCHANGED nextUuid
       ELSE IF ParseOK(project) /\ scene_id \in SceneIds(project.scenes)
       THEN LET scene == get_project(project).scenes[SceneIndex(project.scenes, scene_id)]
            IN IF scene.active_job # NoJob /\ ~force_regenerate
                  /\ scene.active_job.status \in {"queued", "processing"}
               THEN /\ req' = [IdleReq EXCEPT !.sid = scene_id, !.prior = scene.active_job,
                                  !.resp = GenerateVideoResponse(FALSE, scene.active_job.job_id)]
                    /\ UNCHANGED nextUuid
               ELSE /\ req' = [IdleReq EXCEPT !.op = "generate_video", !.pc = "job_read",
                                  !.user = user_id, !.sid = scene_id, !.job_id = <<"uuid", nextUuid>>,
                                  !.type = "video", !.prior = scene.active_job]
                    /\ nextUuid' = nextUuid + 1
       ELSE /\ req' = [IdleReq EXCEPT !.resp = HttpError(IF ParseOK(project) THEN 404 ELSE 500)]
            /\ UNCHANGED nextUuid
    /\ UNCHANGED <<project, jobs, exec, nextScene, genCalls, uploads, vjob, vproc, liveVars, stale>>

\* the owner's request
generate_video_begin(scene_id, force_regenerate) ==
    generate_video_get(Owner, scene_id, force_regenerate)

\* routers/projects.py generate_composition up to the creation of the ActiveJob
generate_composition_get(user_id, scene_id) ==
    /\ req.op = "idle" /\ nReq < MaxRequests /\ JobsReserved < MaxJobs
    /\ nReq' = nReq + 1
    /\ IF ~Authorized(project, user_id)
       THEN /\ req' = ProjectNotFound(user_id)
            /\ UNCHANGED nextUuid
       ELSE IF ParseOK(project) /\ scene_id \in SceneIds(project.scenes)
       THEN /\ req' = [IdleReq EXCEPT !.op = "generate_composition", !.pc = "job_read",
                          !.user = user_id, !.sid = scene_id, !.job_id = <<"uuid", nextUuid>>,
                          !.type = "composition",
                          !.prior = get_project(project).scenes[SceneIndex(project.scenes, scene_id)].active_job]
            /\ nextUuid' = nextUuid + 1
       ELSE /\ req' = [IdleReq EXCEPT !.resp = HttpError(IF ParseOK(project) THEN 404 ELSE 500)]
            /\ UNCHANGED nextUuid
    /\ UNCHANGED <<project, jobs, exec, nextScene, genCalls, uploads, vjob, vproc, liveVars, stale>>

\* the owner's request
generate_composition_begin(scene_id) == generate_composition_get(Owner, scene_id)

\* FirestoreService.update_scene_job, first half: the read of the document
update_scene_job_read ==
    /\ req.pc = "job_read"
    /\ req' = IF req.sid \in SceneIds(project.scenes)
              THEN [req EXCEPT !.pc = "job_write", !.snap = project]
              ELSE [req EXCEPT !.pc = "trigger"]
    /\ UNCHANGED <<project, jobs, exec, nextScene, nextUuid, nReq, genCalls, uploads, vjob, vproc, liveVars, stale>>

\* FirestoreService.update_scene_job, second half: update of the scenes field
update_scene_job_write ==
    /\ req.pc = "job_write"
    /\ LET i == SceneIndex(req.snap.scenes, req.sid)
       IN project' = [project EXCEPT !.scenes =
                         [req.snap.scenes EXCEPT ![i] =
                             DictUpdate(@, [active_job |-> ActiveJob(req.job_id, req.type)])]]
    /\ req' = [req EXCEPT !.pc = "trigger"]
    /\ UNCHANGED <<jobs, exec, nextScene, nextUuid, nReq, genCalls, uploads, vjob, vproc, liveVars, stale>>

\* generate_video after update_scene_job: evaluating request.image_url raises
\* AttributeError (GenerateVideoRequest has no such field), the handler
\* answers 500 and trigger_video_generation is never reached
generate_video_trigger ==
    /\ req.op = "generate_video" /\ req.pc = "trigger"
    /\ req' = [IdleReq EXCEPT !.sid = req.sid, !.job_id = req.job_id, !.prior = req.prior,
                              !.resp = HttpError(500)]
    /\ UNCHANGED <<project, jobs, exec, nextScene, nextUuid, nReq, genCalls, uploads, vjob, vproc, liveVars, stale>>

\* CloudFunctionTrigger.trigger_composition_generation out of
\* generate_composition: the record is set, then the await of set()'s
\* result raises TypeError and the handler answers 500
generate_composition_trigger ==
    /\ req.op = "generate_composition" /\ req.pc = "trigger"
    /\ jobs' = Append(jobs, JobRecord("composition_generation_jobs", req.sid, <<>>))
    /\ req' = [IdleReq EXCEPT !.sid = req.sid, !.job_id = req.job_id, !.prior = req.prior,
                              !.resp = HttpError(500)]
    /\ UNCHANGED <<project, exec, nextScene, nextUuid, nReq, genCalls, uploads, vjob, vproc, liveVars, stale>>

\* CloudFunctionTrigger.trigger_video_generation (reached through
\* batch_trigger_scenes; generate_video never gets to it)
trigger_video_generation(scene_id) ==
    /\ JobsReserved < MaxJobs
    /\ jobs' = Append(jobs, JobRecord("video_generation_jobs", scene_id, <<>>))
    /\ UNCHANGED <<project, exec, req, nextScene, nextUuid, nReq, genCalls, uploads, vjob, vproc, liveVars, stale>>

\* CloudFunctionTrigger.trigger_composition_generation called with any
\* scene_id (0: an empty one)
trigger_composition_generation(scene_id) ==
    /\ JobsReserved < MaxJobs
    /\ jobs' = Append(jobs, JobRecord("composition_generation_jobs", scene_id, <<>>))
    /\ UNCHANGED <<project, exec, req, nextScene, nextUuid, nReq, genCalls, uploads, vjob, vproc, liveVars, stale>>

\* CloudFunctionTrigger.trigger_multi_scene_generation
trigger_multi_scene_generation(scene_ids) ==
    /\ JobsReserved < MaxJobs
    /\ jobs' = Append(jobs, JobRecord("multi_scene_generation_jobs", 0, scene_ids))
    /\ UNCHANGED <<project, exec, req, nextScene, nextUuid, nReq, genCalls, uploads, vjob, vproc, liveVars, stale>>

\* CloudFunctionTrigger.cancel_job: document(job_id).update() stores
\* 'cancelled' whatever the record's status (and raises NotFound for a missing
\* record); the await of update()'s result raises TypeError, so the except
\* branch answers False in both cases
cancel_job(j) ==
    /\ req.op = "idle"
    /\ jobs' = IF j <= Len(jobs) THEN [jobs EXCEPT ![j].status = "cancelled"] ELSE jobs
    /\ req' = [IdleReq EXCEPT !.call = "cancel_job", !.arg = j, !.ret = "False",
                              !.was = IF j <= Len(jobs) THEN jobs[j].status ELSE "missing"]
    /\ UNCHANGED <<project, exec, nextScene, nextUuid, nReq, genCalls, uploads, vjob, vproc, liveVars, stale>>

\* CloudFunctionTrigger.retry_failed_job: the await of document(job_id).get()'s
\* DocumentSnapshot raises TypeError before the status is looked at; the
\* except branch answers False and the update is never reached
retry_failed_job(j) ==
    /\ req.op = "idle"
    /\ req' = [IdleReq EXCEPT !.call = "retry_failed_job", !.arg = j, !.ret = "False",
                              !.was = IF j <= Len(jobs) THEN jobs[j].status ELSE "missing"]
    /\ UNCHANGED <<project, jobs, exec, nextScene, nextUuid, nReq, genCalls, uploads, vjob, vproc, liveVars, stale>>

\* ------------------------------------------- cloud functions: the executors
IsVideo(j) == jobs[j].coll = "video_generation_jobs"
IsComposition(j) == jobs[j].coll = "composition_generation_jobs"
IsMulti(j) == jobs[j].coll = "multi_scene_generation_jobs"

\* the scene an invocation is working on: the record's scene_id, or the
\* element of scene_ids the loop of generate_videos_for_all_scenes is at
TargetScene(j) ==
    IF IsMulti(j)
    THEN IF exec[j].idx \in 1..Len(jobs[j].scene_ids) THEN jobs[j].scene_ids[exec[j].idx] ELSE 0
    ELSE jobs[j].scene_id

\* the job document lacks project_id, scene_id or scene_ids
MissingIds(j) == IF IsMulti(j) THEN jobs[j].scene_ids = <<>> ELSE jobs[j].scene_id = 0

\* job_type handed to update_scene_job_status and _handle_error
JobType(j) == IF IsComposition(j) THEN "composition" ELSE "video"

JobId(j) == <<"job", j>>

\* f"{job_id}_{scene_id}", the job id the batch function puts on a scene
SceneJobId(j) == <<"job", j, TargetScene(j)>>

StoragePath(scene_id, job_type) ==
    "projects/p/scenes/" \o ToString(scene_id) \o
        (IF job_type = "video" THEN "/video.mp4" ELSE "/composition.json")

\* ProjectFirestoreClient.update_scene_job_status: the updates it hands to
\* update_scene_in_project
update_scene_job_status(job_type, status, job_id, progress, error_message) ==
    [active_job |->
        [job_id |-> job_id, type |-> job_type, status |-> status, progress |-> progress,
         started_at |-> (status = "processing"),
         error_message |-> IF error_message # "" THEN error_message ELSE ""]]

\* ProjectFirestoreClient.update_scene_assets: keys with a dot in them
update_scene_assets(asset_type, storage_path) ==
    (("assets." \o asset_type \o "_path") :> storage_path) @@
    (IF asset_type \in {"video", "composition"}
     THEN ("active_job.status" :> "completed") @@ ("active_job.progress" :> 100)
     ELSE <<>>)

\* ProjectFirestoreClient.update_scene_composition
update_scene_composition(composition) == [composition |-> composition]

\* the call of update_scene_in_project an executor makes at each stage
StageUpdates(j) ==
    LET e == exec[j]
    IN CASE e.stage = "p10" -> update_scene_job_status(JobType(j), "processing", JobId(j), 10, "")
         [] e.stage = "p30" -> update_scene_job_status(JobType(j), "processing", JobId(j), 30, "")
         [] e.stage = "p70" -> update_scene_job_status(JobType(j), "processing", JobId(j), 70, "")
         [] e.stage = "comp" -> update_scene_composition(j)
         [] e.stage = "assets" -> update_scene_assets(JobType(j), e.storage_path)
         [] e.stage = "p100" -> update_scene_job_status(JobType(j), "completed", JobId(j), 100, "")
         [] e.stage = "fail" -> update_scene_job_status(JobType(j), "failed", JobId(j), 0, e.err)
         [] e.stage = "b_proc" -> update_scene_job_status("video", "processing", SceneJobId(j), 0, "")
         [] e.stage = "b_assets" -> update_scene_assets("video", e.storage_path)
         [] e.stage = "b_done" -> update_scene_job_status("video", "completed", SceneJobId(j), 100, "")
         [] e.stage = "b_fail" -> update_scene_job_status("video", "failed", SceneJobId(j), 0, e.serr)

\* where the function goes on after the update_scene_in_project of a stage
AfterStage(j) ==
    LET st == exec[j].stage
    IN CASE st = "p10" -> [pc |-> "get_scene", stage |-> "none"]
         [] st = "p30" -> [pc |-> "generate", stage |-> "none"]
         [] st = "p70" -> IF IsComposition(j) THEN [pc |-> "read", stage |-> "comp"]
                          ELSE [pc |-> "upload", stage |-> "none"]
         [] st = "comp" -> [pc |-> "upload", stage |-> "none"]
         [] st = "assets" -> [pc |-> "set_completed", stage |-> "none"]
         [] st = "p100" -> [pc |-> "idle", stage |-> "none"]
         [] st = "fail" -> [pc |-> "idle", stage |-> "none"]
         [] st = "b_proc" -> [pc |-> "get_scene", stage |-> "none"]
         [] st = "b_assets" -> [pc |-> "read", stage |-> "b_done"]
         [] st = "b_done" -> [pc |-> "loop", stage |-> "none"]
         [] st = "b_fail" -> [pc |-> "loop", stage |-> "none"]

Goto(e, target) == [e EXCEPT !.pc = target.pc, !.stage = target.stage]

Raise(e, message, where) ==
    [e EXCEPT !.pc = "set_failed", !.stage = "none", !.err = message, !.raised = where]

\* generate_videos_for_all_scenes, except Exception as scene_error: the
\* failed status update of the scene, then the next scene
SceneError(e, message) == [e EXCEPT !.pc = "read", !.stage = "b_fail", !.serr = message]

\* on_document_created: the creation of a Job Record invokes the function
\* with the record's id and data
Invoke(j) ==
    /\ exec' = [exec EXCEPT ![j] =
                  [IdleExec EXCEPT !.pc = IF MissingIds(j) THEN "reject" ELSE "set_processing",
                      !.n = exec[j].n + 1,
                      !.before = [assets |-> IF jobs[j].scene_id \in SceneIds(project.scenes)
                                             THEN project.scenes[SceneIndex(project.scenes, jobs[j].scene_id)].assets
                                             ELSE SceneAssets,
                                  composition |-> IF jobs[j].scene_id \in SceneIds(project.scenes)
                                                  THEN project.scenes[SceneIndex(project.scenes, jobs[j].scene_id)].composition
                                                  ELSE 0,
                                  completed_scenes |-> project.stats.completed_scenes]]]
    /\ UNCHANGED <<project, jobs, req, nextScene, nextUuid, nReq, genCalls, uploads, vjob, vproc, liveVars, stale>>

ExecStart(j) ==
    /\ j <= Len(jobs) /\ exec[j].pc = "idle" /\ exec[j].n = 0
    /\ Invoke(j)

\* at-least-once delivery: the same creation event is delivered again after
\* the earlier invocation has returned (duplicates of one Job Record at a time)
ExecRedeliver(j) ==
    /\ j <= Len(jobs) /\ exec[j].pc = "idle" /\ exec[j].n >= 1 /\ exec[j].n < MaxDeliveries
    /\ \A k \in 1..MaxJobs : k # j => exec[k].n <= 1
    /\ Invoke(j)

\* ProjectFirestoreClient.update_job: processing at the start, completed at
\* the end, failed in _handle_error
ExecUpdateJob(j) ==
    /\ j <= Len(jobs)
    /\ exec[j].pc \in {"set_processing", "set_completed", "set_failed"}
    /\ LET e == exec[j]
       IN CASE e.pc = "set_processing" /\ IsMulti(j) ->
                 /\ jobs' = [jobs EXCEPT ![j].status = "processing", ![j].progress = 0]
                 /\ exec' = [exec EXCEPT ![j] = Goto(e, [pc |-> "loop", stage |-> "none"])]
            [] e.pc = "set_processing" /\ ~IsMulti(j) ->
                 /\ jobs' = [jobs EXCEPT ![j].status = "processing"]
                 /\ exec' = [exec EXCEPT ![j] = Goto(e, [pc |-> "read", stage |-> "p10"])]
            [] e.pc = "set_completed" ->
                 /\ jobs' = [jobs EXCEPT ![j].status = "completed", ![j].output = e.storage_path]
                 /\ exec' = [exec EXCEPT ![j] = Goto(e, [pc |-> "read", stage |-> "p100"])]
            [] e.pc = "set_failed" ->
                 /\ jobs' = [jobs EXCEPT ![j].status = "failed", ![j].error_message = e.err]
                 /\ exec' = [exec EXCEPT ![j] = Goto(e, [pc |-> "read", stage |-> "fail"])]
    /\ UNCHANGED <<project, req, nextScene, nextUuid, nReq, genCalls, uploads, vjob, vproc, liveVars, stale>>

\* the early return of the three functions for a job document that lacks
\* its ids: _handle_error is called without job_type and so updates
\* video_generation_jobs/{job_id}; for a record of another collection that
\* document does not exist and update() raises NotFound out of the function
ExecReject(j) ==
    /\ j <= Len(jobs) /\ exec[j].pc = "reject"
    /\ IF IsVideo(j)
       THEN /\ jobs' = [jobs EXCEPT ![j].status = "failed", ![j].error_message = MissingIdsError]
            /\ exec' = [exec EXCEPT ![j] = [@ EXCEPT !.pc = "idle", !.err = MissingIdsError,
                                                     !.raised = "missing_ids"]]
       ELSE /\ jobs' = jobs
            /\ exec' = [exec EXCEPT ![j] = [@ EXCEPT !.pc = "idle", !.err = MissingIdsError,
                                                     !.raised = "not_found"]]
    /\ UNCHANGED <<project, req, nextScene, nextUuid, nReq, genCalls, uploads, vjob, vproc, liveVars, stale>>

\* generate_videos_for_all_scenes, the head of the loop: update_job with the
\* progress of the next scene, or with completed, 100 and the results after
\* the last one
ExecLoop(j) ==
    /\ j <= Len(jobs) /\ exec[j].pc = "loop"
    /\ LET e == exec[j]
           total == Len(jobs[j].scene_ids)
           results == IF e.idx = 0 THEN e.results
                      ELSE Append(e.results, [scene_id |-> TargetScene(j),
                                              status |-> IF e.serr = "" THEN "completed" ELSE "failed",
                                              video_path |-> IF e.serr = "" THEN e.storage_path ELSE ""])
       IN IF e.idx + 1 > total
          THEN /\ jobs' = [jobs EXCEPT ![j].status = "completed", ![j].progress = 100,
                                       ![j].results = results]
               /\ exec' = [exec EXCEPT ![j] = [e EXCEPT !.pc = "idle", !.results = results]]
          ELSE /\ jobs' = [jobs EXCEPT ![j].progress = (e.idx * 100) \div total]
               /\ exec' = [exec EXCEPT ![j] =
                             [e EXCEPT !.pc = "read", !.stage = "b_proc", !.idx = e.idx + 1,
                                       !.serr = "", !.video_url = "", !.storage_path = "",
                                       !.results = results]]
    /\ UNCHANGED <<project, req, nextScene, nextUuid, nReq, genCalls, uploads, vjob, vproc, liveVars, stale>>

\* update_scene_in_project, first half: the read of the project document and
\* the search for the scene (not found: returns False, the caller goes on)
ExecReadProject(j) ==
    /\ j <= Len(jobs) /\ exec[j].pc = "read"
    /\ exec' = [exec EXCEPT ![j] =
                  IF TargetScene(j) \in SceneIds(project.scenes)
                  THEN [@ EXCEPT !.pc = "write", !.snap = project.scenes]
                  ELSE Goto(@, AfterStage(j))]
    /\ UNCHANGED <<project, jobs, req, nextScene, nextUuid, nReq, genCalls, uploads, vjob, vproc, liveVars, stale>>

\* update_scene_in_project, the scenes array it writes and the stats it sets
update_scene_in_project(doc, scenes, scene_id, updates) ==
    LET i == SceneIndex(scenes, scene_id)
        updated == [scenes EXCEPT ![i] = DictUpdate(@, updates)]
        recount == /\ "assets" \in DOMAIN updates
                   /\ (updates["assets"].video_path # "" \/ updates["assets"].composition_path # "")
    IN [doc EXCEPT !.scenes = updated,
                   !.stats.completed_scenes =
                       IF recount
                       THEN Cardinality({k \in 1..Len(updated) : updated[k].assets.video_path # ""})
                       ELSE @]

\* update_scene_in_project, second half: project_ref.update
ExecWriteProject(j) ==
    /\ j <= Len(jobs) /\ exec[j].pc = "write"
    /\ project' = update_scene_in_project(project, exec[j].snap, TargetScene(j), StageUpdates(j))
    /\ exec' = [exec EXCEPT ![j] = Goto([@ EXCEPT !.snap = <<>>], AfterStage(j))]
    /\ UNCHANGED <<jobs, req, nextScene, nextUuid, nReq, genCalls, uploads, vjob, vproc, liveVars, stale>>

\* get_scene_from_project (after get_project in the composition function);
\* the batch function also wants the scene's thumbnail_path
ExecGetScene(j) ==
    /\ j <= Len(jobs) /\ exec[j].pc = "get_scene"
    /\ exec' = [exec EXCEPT ![j] =
                  IF IsMulti(j)
                  THEN IF TargetScene(j) \notin SceneIds(project.scenes)
                       THEN SceneError(@, SceneNotFoundError)
                       ELSE IF SceneOf(project, TargetScene(j)).assets.thumbnail_path = ""
                            THEN SceneError(@, NoImageError)
                            ELSE Goto(@, [pc |-> "generate", stage |-> "none"])
                  ELSE IF jobs[j].scene_id \in SceneIds(project.scenes)
                       THEN Goto(@, [pc |-> "read", stage |-> "p30"])
                       ELSE Raise(@, SceneNotFoundError, "get_scene")]
    /\ UNCHANGED <<project, jobs, req, nextScene, nextUuid, nReq, genCalls, uploads, vjob, vproc, liveVars, stale>>

\* what the provider's client.run returns for a video: a list of outputs or
\* a single output, with or without a URL in it (None: a single output
\* without one)
ReplicateOutputs == {[list |-> l, urls |-> u] : l \in BOOLEAN, u \in {<<>>, <<EphemeralUrl>>}}

\* ReplicateHandler.generate_video: str(output[0]) of a list, str(output) of
\* a single output, None of an empty one
temp_url(output) == IF output.urls = <<>> THEN "" ELSE output.urls[1]

\* FirebaseStorageService.upload_from_url when it does not raise:
\* blob.public_url of the uploaded copy
upload_from_url(url, path) == PublicUrl

\* ReplicateHandler.generate_video after client.run: None without a temporary
\* URL, else the URL of its upload of the temporary URL
replicate_generate_video(output) ==
    IF temp_url(output) = "" THEN ""
    ELSE upload_from_url(temp_url(output), "generations/storyboards/p/scenes/video.mp4")

\* what the generation call of Job Record j can get from its provider (the
\* composition comes from OpenAIHandler as one value or None)
GenerationOutputs(j) ==
    IF IsComposition(j) THEN {[list |-> FALSE, urls |-> u] : u \in {<<>>, <<PublicUrl>>}}
    ELSE ReplicateOutputs

GenerationResult(j, output) ==
    IF IsComposition(j) THEN temp_url(output) ELSE replicate_generate_video(output)

\* the generation capability: ReplicateHandler.generate_video or
\* OpenAIHandler.generate_scene_composition returns a value, returns nothing,
\* or raises
ExecGenerate(j) ==
    /\ j <= Len(jobs) /\ exec[j].pc = "generate"
    /\ genCalls' = [genCalls EXCEPT ![j] = @ + 1]
    /\ \/ \E output \in GenerationOutputs(j) :
            /\ GenerationResult(j, output) # ""
            /\ exec' = [exec EXCEPT ![j] =
                          Goto([@ EXCEPT !.video_url = GenerationResult(j, output),
                                         !.seen = jobs[j].status],
                               IF IsMulti(j) THEN [pc |-> "upload", stage |-> "none"]
                               ELSE [pc |-> "read", stage |-> "p70"])]
       \/ \E output \in GenerationOutputs(j) :
            /\ GenerationResult(j, output) = ""
            /\ exec' = [exec EXCEPT ![j] =
                          IF IsMulti(j)
                          THEN SceneError([@ EXCEPT !.seen = jobs[j].status], NoVideoError)
                          ELSE Raise([@ EXCEPT !.seen = jobs[j].status], NoVideoError, "no_result")]
       \/ exec' = [exec EXCEPT ![j] =
                     IF IsMulti(j) THEN SceneError([@ EXCEPT !.seen = jobs[j].status], GenerationError)
                     ELSE Raise([@ EXCEPT !.seen = jobs[j].status], GenerationError, "generation")]
    /\ UNCHANGED <<project, jobs, req, nextScene, nextUuid, nReq, uploads, vjob, vproc, liveVars, stale>>

\* ExecUpload with the failure of the upload swallowed: the function goes on
\* to record the path as if the copy were there
ExecUpload_ignores_failure(j) ==
    /\ j <= Len(jobs) /\ exec[j].pc = "upload"
    /\ LET path == StoragePath(TargetScene(j), JobType(j))
           needed == IsComposition(j) \/ exec[j].video_url \in HttpUrls
       IN \/ /\ exec' = [exec EXCEPT ![j] =
                           Goto([@ EXCEPT !.storage_path = IF needed \/ IsMulti(j) THEN path
                                                           ELSE @.video_url],
                                [pc |-> "read", stage |-> IF IsMulti(j) THEN "b_assets" ELSE "assets"])]
             /\ uploads' = [uploads EXCEPT ![j] = IF needed THEN @ + 1 ELSE @]
          \/ /\ needed
             /\ exec' = [exec EXCEPT ![j] =
                           Goto([@ EXCEPT !.storage_path = path, !.raised = "upload"],
                                [pc |-> "read", stage |-> IF IsMulti(j) THEN "b_assets" ELSE "assets"])]
             /\ UNCHANGED uploads
    /\ UNCHANGED <<project, jobs, req, nextScene, nextUuid, nReq, genCalls, vjob, vproc, liveVars, stale>>

\* FirebaseStorageService.upload_from_url of an http URL (video) or
\* upload_json (composition); either may raise
ExecUpload(j) ==
    /\ j <= Len(jobs) /\ exec[j].pc = "upload"
    /\ LET path == StoragePath(TargetScene(j), JobType(j))
           needed == IsComposition(j) \/ exec[j].video_url \in HttpUrls
       IN \/ /\ exec' = [exec EXCEPT ![j] =
                           Goto([@ EXCEPT !.storage_path = IF needed \/ IsMulti(j) THEN path
                                                           ELSE @.video_url],
                                [pc |-> "read", stage |-> IF IsMulti(j) THEN "b_assets" ELSE "assets"])]
             /\ uploads' = [uploads EXCEPT ![j] = IF needed THEN @ + 1 ELSE @]
          \/ /\ needed
             /\ exec' = [exec EXCEPT ![j] = IF IsMulti(j) THEN SceneError(@, UploadError)
                                            ELSE Raise(@, UploadError, "upload")]
             /\ UNCHANGED uploads
    /\ UNCHANGED <<project, jobs, req, nextScene, nextUuid, nReq, genCalls, vjob, vproc, liveVars, stale>>

\* ------------------------------------------- video router: the video_jobs record
VideoClip(scene_number) ==
    [scene_number |-> scene_number, video_url |-> "", status |-> "pending", error |-> "",
     progress_percent |-> 0]

CountClips(clips, status) == Cardinality({i \in 1..Len(clips) : clips[i].status = status})

RECURSIVE SumProgress(_)
SumProgress(clips) ==
    IF clips = <<>> THEN 0 ELSE Head(clips).progress_percent + SumProgress(Tail(clips))

\* _update_job_progress that recounts only the completed clips
_update_job_progress_completed_only(job) ==
    LET completed == CountClips(job.clips, "completed")
        failed == job.failed_scenes
        processing == CountClips(job.clips, "processing")
        progress == IF job.clips # <<>> THEN SumProgress(job.clips) \div Len(job.clips)
                    ELSE job.progress_percent
        counted == [job EXCEPT !.completed_scenes = completed, !.failed_scenes = failed,
                               !.progress_percent = progress]
    IN IF completed + failed = job.total_scenes
       THEN IF failed = job.total_scenes
            THEN [counted EXCEPT !.status = "failed", !.error = "All scene video generations failed"]
            ELSE IF completed > 0
                 THEN [counted EXCEPT !.status = "completed"]
                 ELSE [counted EXCEPT !.status = "failed",
                                      !.error = "No scenes were successfully generated"]
       ELSE IF processing > 0 \/ completed > 0
            THEN [counted EXCEPT !.status = "processing"]
            ELSE counted

\* _update_job_progress: counts, average progress and overall status
_update_job_progress(job) ==
    LET completed == CountClips(job.clips, "completed")
        failed == CountClips(job.clips, "failed")
        processing == CountClips(job.clips, "processing")
        progress == IF job.clips # <<>> THEN SumProgress(job.clips) \div Len(job.clips)
                    ELSE job.progress_percent
        counted == [job EXCEPT !.completed_scenes = completed, !.failed_scenes = failed,
                               !.progress_percent = progress]
    IN IF completed + failed = job.total_scenes
       THEN IF failed = job.total_scenes
            THEN [counted EXCEPT !.status = "failed", !.error = "All scene video generations failed"]
            ELSE IF completed > 0
                 THEN [counted EXCEPT !.status = "completed"]
                 ELSE [counted EXCEPT !.status = "failed",
                                      !.error = "No scenes were successfully generated"]
       ELSE IF processing > 0 \/ completed > 0
            THEN [counted EXCEPT !.status = "processing"]
            ELSE counted

ClipUrl(scene_number) == "https://replicate.delivery/clip" \o ToString(scene_number) \o ".mp4"

\* _update_clip_progress on a copy of the record read when the job was
\* created: the other clips are written back as they were then
_update_clip_progress_stale_read(job, scene_number, status, video_url, error) ==
    LET hit == {i \in 1..Len(job.clips) : job.clips[i].scene_number = scene_number}
        first == CHOOSE i \in hit : \A k \in hit : i <= k
        stale_clips == [i \in 1..Len(job.clips) |->
                          IF i \in hit THEN job.clips[i] ELSE VideoClip(job.clips[i].scene_number)]
        clip == job.clips[first]
        updated ==
            CASE status = "processing" ->
                   [clip EXCEPT !.status = "processing", !.progress_percent = 50]
              [] status = "completed" ->
                   [clip EXCEPT !.status = "completed", !.video_url = video_url,
                                !.progress_percent = 100]
              [] status = "failed" ->
                   [clip EXCEPT !.status = "failed", !.error = error, !.progress_percent = 0]
              [] OTHER -> clip
    IN _update_job_progress(IF hit = {} THEN job
                            ELSE [job EXCEPT !.clips = [stale_clips EXCEPT ![first] = updated]])

\* _update_clip_progress: the clip with this scene_number takes the reported
\* status, then _update_job_progress
_update_clip_progress(job, scene_number, status, video_url, error) ==
    LET hit == {i \in 1..Len(job.clips) : job.clips[i].scene_number = scene_number}
        first == CHOOSE i \in hit : \A k \in hit : i <= k
        clip == job.clips[first]
        updated ==
            CASE status = "processing" ->
                   [clip EXCEPT !.status = "processing", !.progress_percent = 50]
              [] status = "completed" ->
                   [clip EXCEPT !.status = "completed", !.video_url = video_url,
                                !.progress_percent = 100]
              [] status = "failed" ->
                   [clip EXCEPT !.status = "failed", !.error = error, !.progress_percent = 0]
              [] OTHER -> clip
    IN _update_job_progress(IF hit = {} THEN job ELSE [job EXCEPT !.clips[first] = updated])

\* the uuid _create_job gives its job, and an id no job has
VideoJobId == <<"video_job", 1>>
UnknownJobId == <<"invalid-job-id">>

\* SceneVideoInput: the fields the handler looks at
SceneVideoInput(scene_number, seed_image_url) ==
    [scene_number |-> scene_number, seed_image_url |-> seed_image_url]

\* the scenes of a VideoGenerationRequest: none, or up to MaxClips numbered
\* from 1, each with a seed image URL or an empty one
RequestScenes ==
    UNION {[1..n -> {"", PublicUrl}] : n \in 0..MaxClips}

VideoGenerationRequest(urls) ==
    [i \in 1..Len(urls) |-> SceneVideoInput(i, urls[i])]

\* _create_job: the video_jobs document of a request
_create_job(scenes) ==
    [NoVideoJob EXCEPT !.exists = TRUE, !.job_id = VideoJobId, !.total_scenes = Len(scenes),
                       !.clips = [i \in 1..Len(scenes) |-> VideoClip(scenes[i].scene_number)]]

\* POST /api/video/generate with n scenes that all have a seed image:
\* _create_job, then the background task is scheduled
generate_videos(n) ==
    /\ vproc = "none"
    /\ vjob' = _create_job(VideoGenerationRequest([i \in 1..n |-> PublicUrl]))
    /\ vproc' = "scheduled"
    /\ UNCHANGED <<aggVars, liveVars, stale>>

\* generate_videos with the check of the first scene only
scenes_without_images_first_only(scenes) ==
    {scenes[i].scene_number : i \in {k \in {1} \cap (1..Len(scenes)) : scenes[k].seed_image_url = ""}}

\* generate_videos: the scene numbers of the scenes without a seed image
scenes_without_images(scenes) ==
    {scenes[i].scene_number : i \in {k \in 1..Len(scenes) : scenes[k].seed_image_url = ""}}

\* POST /api/video/generate with any request: 400 for no scenes or a scene
\* without a seed image, else _create_job, the background task and the
\* VideoGenerationResponse with the job_id
video_generate(scenes) ==
    /\ vproc = "none" /\ req.op = "idle"
    /\ IF scenes = <<>> \/ scenes_without_images(scenes) # {}
       THEN /\ req' = [IdleReq EXCEPT !.call = "generate_videos", !.arg = Len(scenes),
                                      !.resp = HttpError(400)]
            /\ UNCHANGED <<vjob, vproc>>
       ELSE /\ vjob' = _create_job(scenes)
            /\ vproc' = "scheduled"
            /\ req' = [IdleReq EXCEPT !.call = "generate_videos", !.arg = Len(scenes),
                                      !.resp = GenerateVideoResponse(TRUE, VideoJobId)]
    /\ UNCHANGED <<project, jobs, exec, nextScene, nextUuid, nReq, genCalls, uploads, liveVars, stale>>

\* GET /api/video/status/{job_id}: 404 without the document, else the
\* VideoJobStatusResponse with the job in it
get_video_status(job_id) ==
    /\ req.op = "idle"
    /\ req' = IF vjob.exists /\ vjob.job_id = job_id
              THEN [IdleReq EXCEPT !.call = "get_video_status",
                                   !.resp = GenerateVideoResponse(TRUE, vjob.job_id)]
              ELSE [IdleReq EXCEPT !.call = "get_video_status", !.resp = HttpError(404)]
    /\ UNCHANGED <<project, jobs, exec, nextScene, nextUuid, nReq, genCalls, uploads, vjob, vproc, liveVars, stale>>

\* _process_video_generation up to the call of generate_videos_parallel
process_start ==
    /\ vproc = "scheduled" /\ vjob.exists
    /\ vjob' = [vjob EXCEPT !.status = "processing"]
    /\ vproc' = "generating"
    /\ UNCHANGED <<aggVars, liveVars, stale>>

\* progress_callback out of the parallel scene generations: each scene reports
\* processing, then completed or failed
progress_callback(scene_number, status) ==
    /\ vproc = "generating"
    /\ scene_number \in 1..Len(vjob.clips)
    /\ \/ status = "processing" /\ vjob.clips[scene_number].status = "pending"
       \/ status \in {"completed", "failed"} /\ vjob.clips[scene_number].status = "processing"
    /\ vjob' = _update_clip_progress(vjob, scene_number, status,
                   IF status = "completed" THEN ClipUrl(scene_number) ELSE "",
                   IF status = "failed" THEN GenerationError ELSE "")
    /\ UNCHANGED <<vproc>>
    /\ UNCHANGED <<aggVars, liveVars, stale>>

\* generate_videos_parallel has returned: the final _update_job_progress
process_finish ==
    /\ vproc = "generating"
    /\ vjob' = _update_job_progress(vjob)
    /\ vproc' = "done"
    /\ UNCHANGED <<aggVars, liveVars, stale>>

\* get_video_service or generate_videos_parallel raised: the except branch
process_raise ==
    /\ vproc \in {"scheduled", "generating"}
    /\ vjob' = [vjob EXCEPT !.status = "failed", !.error = "Video generation failed"]
    /\ vproc' = "done"
    /\ UNCHANGED <<aggVars, liveVars, stale>>

\* ------------------------------------------- backend: the storyboard handlers
otherVars == <<project, jobs, exec, nextScene, nextUuid, genCalls, uploads, vjob, vproc, stale>>

\* FirestoreDatabase.create_scene and update_scene: set() of the scene document
SetScene(doc) ==
    /\ storyboard' = [storyboard EXCEPT !.scenes[doc.id] = doc]
    /\ sbhist' = [sbhist EXCEPT ![doc.id] =
                     IF @ # <<>> /\ @[Len(@)] = current_state(doc) THEN @
                     ELSE Append(@, current_state(doc))]

\* StoryboardService.initialize_storyboard: create_storyboard, then
\* create_scene for each scene, with no await in between
initialize_storyboard ==
    /\ ~storyboard.exists /\ req.op = "idle"
    /\ storyboard' = [exists |-> TRUE, scenes |-> [s \in 1..MaxSbScenes |-> StoryboardScene(s)]]
    /\ sbhist' = [s \in 1..MaxSbScenes |-> <<current_state(StoryboardScene(s))>>]
    /\ UNCHANGED <<otherVars, req, nReq, ijobs, iexec, sse>>

\* StoryboardService.update_scene_text: get_scene, the reset of the scene to
\* its text state, update_scene
update_scene_text(scene_id) ==
    /\ storyboard.exists /\ req.op = "idle" /\ nReq < MaxSbRequests
    /\ scene_id \in 1..Len(storyboard.scenes)
    /\ SetScene([storyboard.scenes[scene_id] EXCEPT
                   !.state = "text", !.image_url = "", !.video_url = "",
                   !.generation_status = SceneGenerationStatus("pending", "pending"),
                   !.error_message = ""])
    /\ nReq' = nReq + 1
    /\ UNCHANGED <<otherVars, req, ijobs, iexec, sse>>

ImageGenerationJob(scene_id) ==
    [scene_id |-> scene_id, storyboard_id |-> StoryboardId, status |-> "pending", error_message |-> ""]

\* routers/storyboards.py generate_scene_image up to the set() of the Job
\* Record in image_generation_jobs
generate_scene_image_begin(scene_id) ==
    /\ storyboard.exists /\ req.op = "idle" /\ nReq < MaxSbRequests
    /\ scene_id \in 1..Len(storyboard.scenes)
    /\ ijobs' = Append(ijobs, ImageGenerationJob(scene_id))
    /\ req' = [IdleReq EXCEPT !.op = "generate_scene_image", !.pc = "update_scene",
                              !.sid = scene_id, !.snap = storyboard.scenes[scene_id]]
    /\ nReq' = nReq + 1
    /\ UNCHANGED <<otherVars, storyboard, sbhist, iexec, sse>>

\* generate_scene_image, the rest: generation_status.image = "generating"
\* on the scene it read, update_scene
generate_scene_image_write ==
    /\ req.op = "generate_scene_image" /\ req.pc = "update_scene"
    /\ SetScene([req.snap EXCEPT !.generation_status.image = "generating"])
    /\ req' = IdleReq
    /\ UNCHANGED <<otherVars, nReq, ijobs, iexec, sse>>

\* ------------------------------- cloud functions: handle_image_generation
\* the documents of the top-level collection scenes, which
\* FirestoreClient.update_scene updates: no code creates one
LegacySceneDocs == {}

NotFoundError == "404 No document to update"

\* on_document_created of image_generation_jobs/{job_id}
handle_image_generation_start(j) ==
    /\ j <= Len(ijobs) /\ iexec[j] = "idle" /\ ijobs[j].status = "pending"
    /\ iexec' = [iexec EXCEPT ![j] = "set_processing"]
    /\ UNCHANGED <<otherVars, req, nReq, storyboard, sbhist, ijobs, sse>>

\* FirestoreClient.update_job: processing at the start, error in the except
\* branch
handle_image_generation_update_job(j) ==
    /\ j <= Len(ijobs) /\ iexec[j] \in {"set_processing", "set_error"}
    /\ IF iexec[j] = "set_processing"
       THEN /\ ijobs' = [ijobs EXCEPT ![j].status = "processing"]
            /\ iexec' = [iexec EXCEPT ![j] = "scene_generating"]
       ELSE /\ ijobs' = [ijobs EXCEPT ![j].status = "error", ![j].error_message = NotFoundError]
            /\ iexec' = [iexec EXCEPT ![j] = "scene_error"]
    /\ UNCHANGED <<otherVars, req, nReq, storyboard, sbhist, sse>>

\* FirestoreClient.update_scene: update() of scenes/{scene_id}, which raises
\* NotFound for a document that does not exist: into the except branch from
\* the try block, out of the function from the except branch
handle_image_generation_update_scene(j) ==
    /\ j <= Len(ijobs) /\ iexec[j] \in {"scene_generating", "scene_error"}
    /\ ijobs[j].scene_id \notin LegacySceneDocs
    /\ iexec' = [iexec EXCEPT ![j] = IF @ = "scene_generating" THEN "set_error" ELSE "raised"]
    /\ UNCHANGED <<otherVars, req, nReq, storyboard, sbhist, ijobs, sse>>

\* ----------------------------------------------- the Live Update Channel
\* a handler that starts the stream without looking for the storyboard
scene_updates_sse_unchecked(storyboard_id) ==
    /\ sse.pc = "none"
    /\ sse' = [sse EXCEPT !.pc = "created", !.code = 200, !.id = storyboard_id]
    /\ UNCHANGED <<otherVars, req, nReq, storyboard, sbhist, ijobs, iexec>>

\* routers/storyboards.py scene_updates_sse: 404 unless get_storyboard finds
\* the document, else the StreamingResponse over scene_update_generator
scene_updates_sse(storyboard_id) ==
    /\ sse.pc = "none"
    /\ IF storyboard.exists /\ storyboard_id = StoryboardId
       THEN sse' = [sse EXCEPT !.pc = "created", !.code = 200, !.id = storyboard_id]
       ELSE sse' = [sse EXCEPT !.code = 404, !.id = storyboard_id]
    /\ UNCHANGED <<otherVars, req, nReq, storyboard, sbhist, ijobs, iexec>>

\* a comparison that leaves the two generation statuses out
Changed_without_status(c, from) ==
    {i \in from..Len(c.scenes) :
        LET last == c.last_states[c.scenes[i].id]
            now == current_state(c.scenes[i])
        IN \E k \in {"state", "image_url", "video_url", "error"} : last[k] # now[k]}

\* the scenes of the snapshot, from index from on, that differ from
\* last_states
Changed(c, from) ==
    {i \in from..Len(c.scenes) : c.last_states[c.scenes[i].id] # current_state(c.scenes[i])}

\* a loop that sends the remembered state of the scene instead of the new one
Advance_last_state(c, from) ==
    IF Changed(c, from) # {}
    THEN LET i == CHOOSE k \in Changed(c, from) : \A m \in Changed(c, from) : k <= m
         IN [c EXCEPT !.pc = "y_update", !.i = i,
                      !.events = Append(@, Frame("scene_update", c.cycle,
                                     [scene_id |-> c.scenes[i].id] @@ c.last_states[c.scenes[i].id]))]
    ELSE [c EXCEPT !.pc = "y_keepalive", !.i = 0,
                   !.events = Append(@, Frame("keepalive", c.cycle, NoUpdate))]

\* a loop that sends the keepalive only in a cycle without a scene_update
Advance_keepalive_when_idle(c, from) ==
    IF Changed(c, from) # {}
    THEN LET i == CHOOSE k \in Changed(c, from) : \A m \in Changed(c, from) : k <= m
         IN [c EXCEPT !.pc = "y_update", !.i = i,
                      !.events = Append(@, Frame("scene_update", c.cycle, SSESceneUpdate(c.scenes[i])))]
    ELSE IF from = 1
         THEN [c EXCEPT !.pc = "y_keepalive", !.i = 0,
                        !.events = Append(@, Frame("keepalive", c.cycle, NoUpdate))]
         ELSE [c EXCEPT !.pc = "sleep", !.i = 0]

\* the for loop of a poll cycle from index from on, up to its next yield:
\* the scene_update of the next scene that differs, or the keepalive
Advance(c, from) ==
    IF Changed(c, from) # {}
    THEN LET i == CHOOSE k \in Changed(c, from) : \A m \in Changed(c, from) : k <= m
         IN [c EXCEPT !.pc = "y_update", !.i = i,
                      !.events = Append(@, Frame("scene_update", c.cycle, SSESceneUpdate(c.scenes[i])))]
    ELSE [c EXCEPT !.pc = "y_keepalive", !.i = 0,
                   !.events = Append(@, Frame("keepalive", c.cycle, NoUpdate))]

\* the image Job Records that are complete or error
EndedImageJobs == {j \in 1..Len(ijobs) : ijobs[j].status \in {"complete", "error"}}

\* the generator is started: the connected frame
scene_update_generator_start ==
    /\ sse.pc = "created"
    /\ sse' = [sse EXCEPT !.pc = "y_connected", !.events = Append(@, Frame("connected", 0, NoUpdate))]
    /\ UNCHANGED <<otherVars, req, nReq, storyboard, sbhist, ijobs, iexec>>

\* the generator is resumed where a poll cycle begins (after the connected
\* frame, the sleep or the back-off): get_scenes_by_storyboard and the loop
\* up to its first yield (seen: the image Job Records ended before the read)
scene_update_generator_poll ==
    /\ sse.pc \in {"y_connected", "sleep", "backoff"} /\ sse.cycle < MaxCycles
    /\ sse' = Advance([sse EXCEPT !.scenes = storyboard.scenes, !.cycle = @ + 1,
                                  !.reads = @ + 1, !.seen = EndedImageJobs], 1)
    /\ UNCHANGED <<otherVars, req, nReq, storyboard, sbhist, ijobs, iexec>>

\* a loop without the inner try: the read error ends the generator
scene_update_generator_poll_error_fatal ==
    /\ sse.pc \in {"y_connected", "sleep", "backoff"} /\ sse.cycle < MaxCycles
    /\ sse' = [sse EXCEPT !.pc = "closed", !.cycle = @ + 1, !.reads = @ + 1,
                          !.events = Append(@, Frame("error", sse.cycle + 1, NoUpdate))]
    /\ UNCHANGED <<otherVars, req, nReq, storyboard, sbhist, ijobs, iexec>>

\* the same with get_scenes_by_storyboard raising: the error frame of the
\* except branch
scene_update_generator_poll_error ==
    /\ sse.pc \in {"y_connected", "sleep", "backoff"} /\ sse.cycle < MaxCycles
    /\ sse' = [sse EXCEPT !.pc = "y_error", !.cycle = @ + 1, !.reads = @ + 1,
                          !.events = Append(@, Frame("error", sse.cycle + 1, NoUpdate))]
    /\ UNCHANGED <<otherVars, req, nReq, storyboard, sbhist, ijobs, iexec>>

\* resumed after a scene_update frame: last_states[scene.id] = current_state,
\* then the rest of the loop
scene_update_generator_after_update ==
    /\ sse.pc = "y_update"
    /\ sse' = Advance([sse EXCEPT !.last_states[sse.scenes[sse.i].id] =
                                      current_state(sse.scenes[sse.i])], sse.i + 1)
    /\ UNCHANGED <<otherVars, req, nReq, storyboard, sbhist, ijobs, iexec>>

\* resumed after the keepalive frame: asyncio.sleep(2)
scene_update_generator_after_keepalive ==
    /\ sse.pc = "y_keepalive"
    /\ sse' = [sse EXCEPT !.pc = "sleep"]
    /\ UNCHANGED <<otherVars, req, nReq, storyboard, sbhist, ijobs, iexec>>

\* resumed after the error frame: asyncio.sleep(5)
scene_update_generator_after_error ==
    /\ sse.pc = "y_error"
    /\ sse' = [sse EXCEPT !.pc = "backoff"]
    /\ UNCHANGED <<otherVars, req, nReq, storyboard, sbhist, ijobs, iexec>>

\* where the generator can be suspended: at a yield or in a sleep
Suspended == {"y_connected", "y_update", "y_keepalive", "sleep", "y_error", "backoff"}

\* a CancelledError that the except branch of the loop catches as it would an
\* Exception: the error frame, and the loop goes on
scene_update_generator_cancel_caught ==
    /\ sse.pc \in Suspended
    /\ IF sse.pc \in {"sleep", "backoff"}
       THEN sse' = [sse EXCEPT !.pc = "y_error", !.cancelled = TRUE, !.at = sse.pc,
                               !.events = Append(@, Frame("error", sse.cycle, NoUpdate))]
       ELSE sse' = [sse EXCEPT !.pc = "closed", !.cancelled = TRUE, !.at = sse.pc]
    /\ UNCHANGED <<otherVars, req, nReq, storyboard, sbhist, ijobs, iexec>>

\* the client disconnects: GeneratorExit at a yield, CancelledError in a
\* sleep; neither is an Exception, so the except branch of the loop lets
\* both through and the generator ends
scene_update_generator_cancel ==
    /\ sse.pc \in Suspended
    /\ sse' = [sse EXCEPT !.pc = "closed", !.cancelled = TRUE, !.at = sse.pc]
    /\ UNCHANGED <<otherVars, req, nReq, storyboard, sbhist, ijobs, iexec>>

\* --------------------------------------------------------------- the system
\* the scene ids a client finds in the stored project
StoredScenes == SceneIds(project.scenes)

SceneEdits ==
    \/ add_scene_read
    \/ add_scene_write
    \/ \E s \in StoredScenes, d \in Durations : update_scene_read(s, d)
    \/ update_scene_write

Dispatch ==
    \/ \E s \in StoredScenes, f \in BOOLEAN : generate_video_begin(s, f)
    \/ \E s \in StoredScenes : generate_composition_begin(s)
    \/ update_scene_job_read
    \/ update_scene_job_write
    \/ generate_video_trigger
    \/ generate_composition_trigger

Executors ==
    \/ \E j \in 1..MaxJobs : ExecStart(j)
    \/ \E j \in 1..MaxJobs : ExecUpdateJob(j)
    \/ \E j \in 1..MaxJobs : ExecReadProject(j)
    \/ \E j \in 1..MaxJobs : ExecWriteProject(j)
    \/ \E j \in 1..MaxJobs : ExecGetScene(j)
    \/ \E j \in 1..MaxJobs : ExecGenerate(j)
    \/ \E j \in 1..MaxJobs : ExecUpload(j)

\* scene edits of the backend against the executors of video Job Records
Next ==
    \/ SceneEdits
    \/ \E s \in StoredScenes : trigger_video_generation(s)
    \/ Executors

Spec == Init /\ [][Next]_vars

\* the dispatch handlers of the backend, one request after the other
NextDispatch ==
    \/ SceneEdits
    \/ Dispatch

SpecDispatch == Init /\ [][NextDispatch]_vars

\* one project with its scenes, Job Records delivered more than once
NextRedelivery ==
    \/ add_scene_read
    \/ add_scene_write
    \/ \E s \in StoredScenes : trigger_video_generation(s)
    \/ Executors
    \/ \E j \in 1..MaxJobs : ExecRedeliver(j)

SpecRedelivery == Init /\ [][NextRedelivery]_vars

\* scene edits against the assets recorded by the backend
NextAssets ==
    \/ SceneEdits
    \/ \E s \in StoredScenes : \E a \in AssetInputs(s) : backend_update_scene_assets_read(s, a)
    \/ backend_update_scene_assets_write

SpecAssets == Init /\ [][NextAssets]_vars

\* generate_video requests against the executor of a video Job Record
NextPipeline ==
    \/ add_scene_read
    \/ add_scene_write
    \/ \E s \in StoredScenes : Len(jobs) < MaxPipelineJobs /\ trigger_video_generation(s)
    \/ Executors
    \/ \E s \in StoredScenes, f \in BOOLEAN : generate_video_begin(s, f)
    \/ update_scene_job_read
    \/ update_scene_job_write
    \/ generate_video_trigger

SpecPipeline == Init /\ [][NextPipeline]_vars

\* cancel_job and retry_failed_job against the executor of a video Job Record
NextControl ==
    \/ add_scene_read
    \/ add_scene_write
    \/ \E s \in StoredScenes : Len(jobs) < MaxPipelineJobs /\ trigger_video_generation(s)
    \/ Executors
    \/ \E j \in 1..MaxJobs : cancel_job(j)
    \/ \E j \in 1..MaxJobs : retry_failed_job(j)

SpecControl == Init /\ [][NextControl]_vars

\* an invocation that has started runs to its return, and a call of
\* cancel_job or retry_failed_job returns
SpecControlFair == SpecControl /\ WF_vars(Executors)

\* the scene_ids a caller hands to trigger_multi_scene_generation
SceneIdLists ==
    {<<>>} \cup {<<s>> : s \in StoredScenes}
           \cup {<<st[1], st[2]>> : st \in {x \in StoredScenes \X StoredScenes : x[1] # x[2]}}

\* the three executors on Job Records of their collections, with and without
\* the ids in the job document; the scenes get their assets before the jobs
NextErrors ==
    \/ add_scene_read
    \/ add_scene_write
    \/ \E s \in StoredScenes : \E a \in AssetInputs(s) :
           jobs = <<>> /\ backend_update_scene_assets_read(s, a)
    \/ backend_update_scene_assets_write
    \/ \E s \in StoredScenes \cup {0} : Len(jobs) < MaxPipelineJobs /\ trigger_video_generation(s)
    \/ \E s \in StoredScenes \cup {0} : Len(jobs) < MaxPipelineJobs /\ trigger_composition_generation(s)
    \/ \E ids \in SceneIdLists : Len(jobs) < MaxPipelineJobs /\ trigger_multi_scene_generation(ids)
    \/ Executors
    \/ \E j \in 1..MaxJobs : ExecReject(j)
    \/ \E j \in 1..MaxJobs : ExecLoop(j)

SpecErrors == Init /\ [][NextErrors]_vars

\* every Job Record created so far has had its invocation, and that has returned
AllReturned == \A k \in 1..Len(jobs) : exec[k].pc = "idle" /\ exec[k].n >= 1

\* the video executors, one Job Record after the other: the scenes get their
\* assets before the jobs
NextStorage ==
    \/ add_scene_read
    \/ add_scene_write
    \/ \E s \in StoredScenes : \E a \in AssetInputs(s) :
           jobs = <<>> /\ backend_update_scene_assets_read(s, a)
    \/ backend_update_scene_assets_write
    \/ \E s \in StoredScenes :
           Len(jobs) < MaxPipelineJobs /\ AllReturned /\ req.op = "idle"
           /\ trigger_video_generation(s)
    \/ \E ids \in SceneIdLists :
           Len(jobs) < MaxPipelineJobs /\ AllReturned /\ req.op = "idle"
           /\ trigger_multi_scene_generation(ids)
    \/ Executors
    \/ \E j \in 1..MaxJobs : ExecReject(j)
    \/ \E j \in 1..MaxJobs : ExecLoop(j)

SpecStorage == Init /\ [][NextStorage]_vars

\* the scene_number a body of add_scene carries: none (0), or the position
\* the new scene gets
SceneNumberInputs == {0, Len(project.scenes) + 1}

\* the project handlers, called by the owner and by another user, one
\* request after the other; add_scene up to MaxScenes times before and after
\* the scenes of initialize_scenes
NextApi ==
    \/ \E u \in Users : projects_get_project(u)
    \/ \E u \in Users : projects_update_project(u)
    \/ \E u \in Users : projects_delete_project(u)
    \/ \E u \in Users : \E n \in SceneNumberInputs :
           /\ \/ nextScene <= MaxScenes
              \/ Len(project.scenes) >= InitialScenes /\ nextScene <= InitialScenes + MaxScenes
           /\ add_scene_get(u, n)
    \/ add_scene_write
    \/ \E u \in Users : \E s \in StoredScenes : \E d \in Durations : update_scene_get(u, s, d)
    \/ update_scene_write
    \/ \E u \in Users : initialize_scenes_get(u)
    \/ initialize_scenes_add
    \/ \E u \in Users : \E s \in StoredScenes : \E f \in BOOLEAN : generate_video_get(u, s, f)
    \/ \E u \in Users : \E s \in StoredScenes : generate_composition_get(u, s)
    \/ update_scene_job_read
    \/ update_scene_job_write
    \/ generate_video_trigger
    \/ generate_composition_trigger

SpecApi == Init /\ [][NextApi]_vars

\* ------------------------------------------------- backend: is_job_stale
\* JobStatus
JobStatuses == {"queued", "processing", "completed", "failed"}

\* is_job_stale(job, threshold_minutes) at the time now (datetime.now(), in
\* minutes as last_update)
is_job_stale(job, threshold_minutes, now) ==
    LET threshold == now - threshold_minutes
    IN job.last_update < threshold

\* the ActiveJob of a call and the clock at the call: any status, any
\* last_update up to now
StaleCalls ==
    {[NoStaleCall EXCEPT !.status = st, !.last_update = t, !.now = n] :
        st \in JobStatuses, t \in 0..MaxMinutes, n \in 0..MaxMinutes}

InitStale ==
    /\ project = NewProject
    /\ jobs = <<>>
    /\ exec = [j \in 1..MaxJobs |-> IdleExec]
    /\ req = IdleReq
    /\ nextScene = 1
    /\ nextUuid = 1
    /\ nReq = 0
    /\ genCalls = [j \in 1..MaxJobs |-> 0]
    /\ uploads = [j \in 1..MaxJobs |-> 0]
    /\ vjob = NoVideoJob
    /\ vproc = "none"
    /\ storyboard = NoStoryboard
    /\ sbhist = [s \in 1..MaxSbScenes |-> <<>>]
    /\ ijobs = <<>>
    /\ iexec = [j \in 1..MaxSbRequests |-> "idle"]
    /\ sse = NoConnection
    /\ stale \in {c \in StaleCalls : c.last_update <= c.now}

\* a call of is_job_stale(job) with the default threshold
is_job_stale_call ==
    /\ ~stale.called
    /\ stale' = [stale EXCEPT !.called = TRUE,
                              !.result = is_job_stale([status |-> stale.status,
                                                       last_update |-> stale.last_update],
                                                      DefaultThresholdMinutes, stale.now)]
    /\ UNCHANGED <<project, jobs, exec, req, nextScene, nextUuid, nReq, genCalls, uploads,
                   vjob, vproc, liveVars>>

NextStale == is_job_stale_call

SpecStale == InitStale /\ [][NextStale]_vars

\* the video router: one video_jobs record and its clips
NextClips ==
    \/ \E n \in 1..MaxClips : generate_videos(n)
    \/ process_start
    \/ \E n \in 1..MaxClips, st \in {"processing", "completed", "failed"} : progress_callback(n, st)
    \/ process_finish
    \/ process_raise

SpecClips == Init /\ [][NextClips]_vars

\* the video router with its HTTP answers: any request, the status of the
\* job and of an unknown id, and the background task
NextVideoApi ==
    \/ \E urls \in RequestScenes : video_generate(VideoGenerationRequest(urls))
    \/ \E id \in {VideoJobId, UnknownJobId} : get_video_status(id)
    \/ process_start
    \/ \E n \in 1..MaxClips, st \in {"processing", "completed", "failed"} : progress_callback(n, st)
    \/ process_finish
    \/ process_raise

SpecVideoApi == Init /\ [][NextVideoApi]_vars

StoryboardHandlers ==
    \/ initialize_storyboard
    \/ \E s \in 1..MaxSbScenes : update_scene_text(s)
    \/ \E s \in 1..MaxSbScenes : generate_scene_image_begin(s)
    \/ generate_scene_image_write

ImageExecutors ==
    \/ \E j \in 1..MaxSbRequests : handle_image_generation_start(j)
    \/ \E j \in 1..MaxSbRequests : handle_image_generation_update_job(j)
    \/ \E j \in 1..MaxSbRequests : handle_image_generation_update_scene(j)

LiveChannel ==
    \/ \E id \in {StoryboardId, ProjectId} : scene_updates_sse(id)
    \/ scene_update_generator_start
    \/ scene_update_generator_poll
    \/ scene_update_generator_poll_error
    \/ scene_update_generator_after_update
    \/ scene_update_generator_after_keepalive
    \/ scene_update_generator_after_error
    \/ scene_update_generator_cancel

\* one storyboard, its handlers and one Live Update connection
NextLive ==
    \/ StoryboardHandlers
    \/ LiveChannel

SpecLive == Init /\ [][NextLive]_vars

\* the same with the executor of the image Job Records
NextLiveJobs ==
    \/ StoryboardHandlers
    \/ ImageExecutors
    \/ LiveChannel

SpecLiveJobs == Init /\ [][NextLiveJobs]_vars

\* ------------------------------------------------------------------ claims
\* what the executors and dispatchers write of a scene: everything but the
\* fields a user edits
JobView(scene) == [k \in (DOMAIN scene) \ {"duration_seconds"} |-> scene[k]]

Collections == {"video_generation_jobs", "composition_generation_jobs"}

ActiveRecords(scene_id, coll) ==
    {j \in 1..Len(jobs) : /\ jobs[j].scene_id = scene_id
                          /\ jobs[j].coll = coll
                          /\ jobs[j].status \in {"pending", "processing"}}

\* C1: for every scene and job type, at most one Job Record created without
\* force_regenerate is pending or processing (no dispatcher that creates a
\* Job Record takes the flag, so every record counts).
C1_SingleActiveJob ==
    \A s \in 1..MaxScenes, c \in Collections : Cardinality(ActiveRecords(s, c)) <= 1

\* C2: an executor's write of the scenes array leaves every other scene that
\* an executor has written (active_job processing, completed or failed) with
\* the active_job, assets and composition the store held for it.
C2_NoLostExecutorUpdate ==
    [][\A j \in 1..MaxJobs :
          (j <= Len(jobs) /\ exec[j].pc = "write" /\ exec'[j].pc # "write") =>
              \A i \in 1..Len(project.scenes) :
                  (/\ project.scenes[i].id # jobs[j].scene_id
                   /\ project.scenes[i].active_job.status \in {"processing", "completed", "failed"})
                  => /\ HasScene(project', project.scenes[i].id)
                     /\ JobView(SceneOf(project', project.scenes[i].id)) = JobView(project.scenes[i])]_vars

\* C3: the write of a user edit (add_scene, update_scene) keeps, for every
\* scene of the stored document, the active_job, assets and composition that
\* the store holds at that moment.
C3_EditKeepsCommittedWrites ==
    [][(req.op \in {"add_scene", "update_scene"} /\ req'.op = "idle") =>
          \A i \in 1..Len(project.scenes) :
              /\ HasScene(project', project.scenes[i].id)
              /\ JobView(SceneOf(project', project.scenes[i].id)) = JobView(project.scenes[i])]_vars

\* C4: an invocation of the executor for a Job Record whose earlier
\* invocation has ended (completed or failed) changes neither the record nor
\* the project and makes no generation call and no upload.
C4_RedeliveryHasNoEffect ==
    [][\A j \in 1..MaxJobs :
          (j <= Len(jobs) /\ exec[j].n >= 2 /\ exec'[j] # exec[j]) =>
              /\ jobs' = jobs
              /\ project' = project
              /\ genCalls' = genCalls
              /\ uploads' = uploads]_vars

\* C5: stats.total_scenes is the number of scenes and stats.completed_scenes
\* the number of complete scenes, in every state of the project document.
C5_StatsConsistent ==
    /\ project.stats.total_scenes = Len(project.scenes)
    /\ project.stats.completed_scenes = CompletedCount(project.scenes)

\* C6: while a scene's active_job stays processing for the same job, its
\* recorded progress never goes down.
C6_ActiveJobProgressMonotonic ==
    [][\A i \in 1..Len(project.scenes) :
          LET id == project.scenes[i].id
              old == project.scenes[i].active_job
          IN (HasScene(project', id) /\ old.status = "processing") =>
                LET new == SceneOf(project', id).active_job
                IN (new.status = "processing" /\ new.job_id = old.job_id) =>
                       new.progress >= old.progress]_vars

\* C7: while a video_jobs record stays processing, its progress_percent never
\* goes down.
C7_VideoJobProgressMonotonic ==
    [][(vjob.status = "processing" /\ vjob'.status = "processing") =>
          vjob'.progress_percent >= vjob.progress_percent]_vars

\* C8: a job whose status is completed has progress 100: the active_job of
\* every scene and the video_jobs record.
C8_CompletedMeansFullProgress ==
    /\ \A i \in 1..Len(project.scenes) :
          project.scenes[i].active_job.status = "completed" =>
              project.scenes[i].active_job.progress = 100
    /\ vjob.status = "completed" => vjob.progress_percent = 100

\* the step with which the invocation for Job Record j returns
Returns(j) == j <= Len(jobs) /\ exec[j].pc # "idle" /\ exec'[j].pc = "idle"

\* C9: when an invocation of generate_video_for_scene in which the generation
\* call raised returns, the Job Record is failed with the error message, the
\* scene's active_job is failed with the error message, and the scene's
\* assets are those from before the attempt.
C9_GenerationErrorRecorded ==
    [][\A j \in 1..MaxJobs :
          (Returns(j) /\ IsVideo(j) /\ exec[j].raised = "generation") =>
              /\ jobs'[j].status = "failed"
              /\ jobs'[j].error_message = GenerationError
              /\ HasScene(project', jobs[j].scene_id)
              /\ LET scene == SceneOf(project', jobs[j].scene_id)
                 IN /\ scene.active_job.status = "failed"
                    /\ scene.active_job.job_id = JobId(j)
                    /\ scene.active_job.error_message = GenerationError
                    /\ scene.assets = exec[j].before.assets]_vars

\* C10: when generate_video_for_scene returns after completing the job, the
\* scene's assets.video_path is the storage path, its active_job is
\* completed, and stats.completed_scenes is what it was before the attempt
\* when the scene has no composition_path.
C10_VideoCompletionRecorded ==
    [][\A j \in 1..MaxJobs :
          (Returns(j) /\ IsVideo(j) /\ exec[j].raised = "none") =>
              /\ HasScene(project', jobs[j].scene_id)
              /\ LET scene == SceneOf(project', jobs[j].scene_id)
                 IN /\ scene.assets.video_path = exec[j].storage_path
                    /\ scene.active_job.status = "completed"
                    /\ (scene.assets.composition_path = "" =>
                           project'.stats.completed_scenes = exec[j].before.completed_scenes)]_vars

\* the step with which the generate_video handler answers after it has
\* created its ActiveJob
VideoDispatched == req.op = "generate_video" /\ req'.op = "idle"

\* C11: when generate_video has handled a request for a scene that had no
\* active_job, there is a new Job Record with status pending for the scene
\* in video_generation_jobs and the scene's active_job has type video and
\* status pending.
C11_VideoDispatchCreatesPendingJob ==
    [][(VideoDispatched /\ req.prior = NoJob) =>
          /\ Len(jobs') = Len(jobs) + 1
          /\ jobs'[Len(jobs')] = JobRecord("video_generation_jobs", req.sid, <<>>)
          /\ HasScene(project', req.sid)
          /\ SceneOf(project', req.sid).active_job.type = "video"
          /\ SceneOf(project', req.sid).active_job.status = "pending"]_vars

\* C12: when generate_video answers after creating its ActiveJob, the answer
\* carries the job id it generated, the scene's active_job carries the same
\* id, and a Job Record with that id exists.
C12_ReturnedJobIdIsJobRecord ==
    [][VideoDispatched =>
          /\ req'.resp = GenerateVideoResponse(TRUE, req.job_id)
          /\ HasScene(project', req.sid)
          /\ SceneOf(project', req.sid).active_job.job_id = req.job_id
          /\ \E j \in 1..Len(jobs') : JobId(j) = req.job_id]_vars

\* C13: a generate_video request without force_regenerate for a scene whose
\* stored active_job is queued or processing is answered with
\* success = False and the id of that active_job, and changes neither the
\* Job Records nor the project document.
C13_ActiveJobConflictRejected ==
    [][\A s \in StoredScenes :
          (/\ generate_video_begin(s, FALSE)
           /\ SceneOf(project, s).active_job.status \in {"queued", "processing"}) =>
              /\ req'.op = "idle"
              /\ req'.resp = GenerateVideoResponse(FALSE, SceneOf(project, s).active_job.job_id)
              /\ jobs' = jobs
              /\ project' = project]_vars

\* C14: when update_scene stores a new duration for a scene whose stored
\* assets.video_path is set, the stored assets.video_path is cleared.
C14_DurationChangeClearsVideo ==
    [][(/\ req.op = "update_scene" /\ req'.op = "idle"
        /\ HasScene(project, req.sid)
        /\ SceneOf(project, req.sid).assets.video_path # ""
        /\ SceneOf(project', req.sid).duration_seconds # SceneOf(project, req.sid).duration_seconds) =>
           SceneOf(project', req.sid).assets.video_path = ""]_vars

\* the status changes of a Job Record that the life cycle allows
StatusTransitions ==
    {<<"pending", "processing">>, <<"processing", "completed">>, <<"processing", "failed">>,
     <<"failed", "pending">>, <<"pending", "failed">>}

\* C15: every step that changes the status of a Job Record takes it from
\* pending to processing, processing to completed, processing to failed,
\* failed to pending or pending to failed.
C15_StatusTransitionsAllowed ==
    [][\A j \in 1..Len(jobs) :
          jobs'[j].status # jobs[j].status =>
              <<jobs[j].status, jobs'[j].status>> \in StatusTransitions]_vars

\* C16: cancel_job applied to a Job Record that is completed or failed leaves
\* the record's status as it is.
C16_CancelOnlyActiveJobs ==
    [][\A j \in 1..Len(jobs) :
          (cancel_job(j) /\ jobs[j].status \in {"completed", "failed"}) =>
              jobs'[j].status = jobs[j].status]_vars

\* C17: an invocation whose Job Record was cancelled when its generation
\* call came back neither writes the scene's assets nor the completed
\* active_job afterwards, and the Job Record does not become completed.
C17_CancelledResultNotPersisted ==
    [][\A j \in 1..Len(jobs) :
          (exec[j].seen = "cancelled" /\ exec'[j] # exec[j]) =>
              /\ jobs'[j].status # "completed"
              /\ ~(exec[j].pc = "write" /\ exec[j].stage \in {"assets", "p100"})]_vars

\* C18: retry_failed_job on a failed Job Record sets it to pending, adds one
\* to retry_count, clears error_message and returns True; on a missing
\* record or any other status it returns False and changes nothing.
C18_RetryResetsFailedJob ==
    [][\A j \in 1..MaxJobs :
          retry_failed_job(j) =>
              IF j <= Len(jobs) /\ jobs[j].status = "failed"
              THEN /\ jobs' = [jobs EXCEPT ![j].status = "pending", ![j].error_message = "",
                                           ![j].retry_count = @ + 1]
                   /\ req'.ret = "True"
              ELSE jobs' = jobs /\ req'.ret = "False"]_vars

\* retry_failed_job has been called for the Job Record j whose invocation
\* had ended in failed
RetryRequested(j) ==
    /\ req.call = "retry_failed_job" /\ req.arg = j /\ req.was = "failed"
    /\ j <= Len(jobs) /\ exec[j].n = 1 /\ exec[j].pc = "idle"

\* C19: after retry_failed_job has been called for a failed Job Record, the
\* executor is eventually invoked for the record again and the record
\* eventually is completed or failed by that invocation.
C19_RetryLeadsToExecution ==
    \A j \in 1..MaxJobs :
        RetryRequested(j) ~>
            (exec[j].n >= 2 /\ exec[j].pc = "idle" /\ jobs[j].status \in {"completed", "failed"})

\* C20: when an invocation that ended in an error returns, its Job Record is
\* failed and has an error_message.
C20_ErrorLeavesFailedRecord ==
    [][\A j \in 1..MaxJobs :
          (Returns(j) /\ exec'[j].raised # "none") =>
              /\ jobs'[j].status = "failed"
              /\ jobs'[j].error_message # ""]_vars

\* the frames of the connection, by position
Frames == 1..Len(sse.events)

\* the positions of the scene_update frames for scene s
Updates(s) == {n \in Frames : sse.events[n].type = "scene_update" /\ sse.events[n].data.scene_id = s}

\* the tuple a scene_update frame carries
TupleOf(f) == [k \in DOMAIN NoState |-> f.data[k]]

\* the tuple of the last scene_update for scene s among the frames at the
\* positions in ns (NoState: there is none)
LastEmitted(s, ns) ==
    LET prev == Updates(s) \cap ns
    IN IF prev = {} THEN NoState
       ELSE TupleOf(sse.events[CHOOSE n \in prev : \A m \in prev : m <= n])

\* the frames of the poll cycles before cycle c
Before(c) == {n \in Frames : sse.events[n].cycle < c}

\* C21: when the loop of a poll cycle is through, a scene of the snapshot has
\* a scene_update frame in this cycle exactly when its observed tuple differs
\* from the tuple of the last scene_update sent for it in an earlier cycle,
\* that frame carries the observed tuple, and no scene_update carries the
\* tuple of the scene_update before it for the same scene.
C21_UpdateExactlyOnChange ==
    /\ sse.pc = "y_keepalive" =>
          \A i \in 1..Len(sse.scenes) :
             LET s == sse.scenes[i].id
                 sent == {n \in Updates(s) : sse.events[n].cycle = sse.cycle}
             IN /\ (sent # {}) <=> (current_state(sse.scenes[i]) # LastEmitted(s, Before(sse.cycle)))
                /\ Cardinality(sent) <= 1
                /\ \A n \in sent : TupleOf(sse.events[n]) = current_state(sse.scenes[i])
    /\ \A s \in 1..MaxSbScenes : \A n \in Updates(s) :
          TupleOf(sse.events[n]) # LastEmitted(s, 1..(n - 1))

\* C21 witness: a scene with a scene_update in the first and in the third
\* cycle and none in the second.
C21_Witness ==
    /\ sse.pc = "y_keepalive" /\ sse.cycle = 3
    /\ \E s \in 1..MaxSbScenes :
          {sse.events[n].cycle : n \in Updates(s)} = {1, 3}

\* the tuples of the scene_update frames for scene s, in the order sent
Emitted(s) ==
    LET sel == SelectSeq(sse.events, LAMBDA f : f.type = "scene_update" /\ f.data.scene_id = s)
    IN [n \in 1..Len(sel) |-> TupleOf(sel[n])]

RECURSIVE IsSubseq(_, _)
IsSubseq(a, b) ==
    IF a = <<>> THEN TRUE
    ELSE IF b = <<>> THEN FALSE
    ELSE IF Head(a) = Head(b) THEN IsSubseq(Tail(a), Tail(b))
    ELSE IsSubseq(a, Tail(b))

\* C22: the tuples sent for a scene on the connection, in the order sent, are
\* a subsequence of the tuples the scene's document has held, in the order it
\* held them.
C22_EventsFollowStoreOrder == \A s \in 1..MaxSbScenes : IsSubseq(Emitted(s), sbhist[s])

\* C22 witness: two tuples sent for a scene whose document has held three.
C22_Witness == \E s \in 1..MaxSbScenes : Len(Emitted(s)) = 2 /\ Len(sbhist[s]) = 3

\* the image_status a scene_update reports for the status of an ended job
ReportedAs(status) == IF status = "complete" THEN {"complete", "completed"} ELSE {"error", "failed"}

\* C23: when the loop of a poll cycle is through, the connection has sent,
\* for every Job Record that an executor had set to complete or error before
\* the cycle read the scenes, a scene_update for the job's scene that carries
\* that status.
C23_ExecutorOutcomeReported ==
    sse.pc = "y_keepalive" =>
       \A j \in sse.seen : \E n \in Updates(ijobs[j].scene_id) :
          sse.events[n].data.image_status \in ReportedAs(ijobs[j].status)

\* the poll cycles that are over: the generator has gone on to the next
\* cycle or waits for it
CyclesOver ==
    {c \in 1..sse.cycle : c < sse.cycle \/ sse.pc \in {"sleep", "backoff"}}

FramesOf(c, type) == {n \in Frames : sse.events[n].cycle = c /\ sse.events[n].type = type}

SendsError ==
    /\ Len(sse'.events) = Len(sse.events) + 1
    /\ sse'.events[Len(sse'.events)].type = "error"

\* C25: a step that sends an error frame leaves the generator alive and the
\* last_states as they were; what the generator does after the error frame
\* is the back-off, and after the back-off the next read; and when the loop
\* of a cycle whose read succeeded is through, the last scene_update sent for
\* every scene of the snapshot carries the tuple the cycle observed.
C25_ReadErrorKeepsConnection ==
    /\ [][/\ SendsError => (sse'.pc = "y_error" /\ sse'.last_states = sse.last_states)
          /\ (sse.pc = "y_error" /\ sse' # sse) => sse'.pc \in {"backoff", "closed"}
          /\ (sse.pc = "backoff" /\ sse' # sse) =>
                (sse'.pc = "closed" \/ sse'.reads = sse.reads + 1)]_vars
    /\ [](sse.pc = "y_keepalive" =>
            \A i \in 1..Len(sse.scenes) :
               LastEmitted(sse.scenes[i].id, Frames) = current_state(sse.scenes[i]))

\* C25 witness: an error frame, and in a later cycle a scene_update for a
\* tuple that the scene did not have when the connection last reported it.
C25_Witness ==
    \E e \in Frames : \E n \in Frames :
       /\ sse.events[e].type = "error" /\ sse.events[n].type = "scene_update"
       /\ sse.events[e].cycle < sse.events[n].cycle
       /\ Updates(sse.events[n].data.scene_id) \cap 1..(e - 1) # {}

\* C26: once the client has disconnected, the generator makes no read and
\* sends no frame, the step of the disconnection included.
C26_CancelStopsPolling ==
    [][sse'.cancelled => (sse'.reads = sse.reads /\ sse'.events = sse.events)]_vars

\* C26 witness: the generator was ended in its error back-off.
C26_Witness == sse.cancelled /\ sse.at = "backoff" /\ sse.pc = "closed"

\* C27: a subscription under an id that no storyboard document has is
\* answered 404, and a connection answered 404 has no generator, no read and
\* no frame.
C27_UnknownStoryboardNotFound ==
    /\ [][\A id \in {StoryboardId, ProjectId} :
            (scene_updates_sse(id) /\ ~(storyboard.exists /\ id = StoryboardId)) =>
               (sse'.code = 404 /\ sse'.pc = "none")]_vars
    /\ [](sse.code = 404 => (sse.pc = "none" /\ sse.reads = 0 /\ sse.events = <<>>))

\* C27 witness: the id of the project, asked for while the storyboard exists.
C27_Witness == sse.code = 404 /\ sse.id = ProjectId /\ storyboard.exists

\* the paths of the video objects in the system's own storage
DurablePaths == {StoragePath(s, "video") : s \in 1..MaxScenes}

\* C28: once generate_video_for_scene has completed its Job Record and
\* returned, the video_path of the scene's assets is a path in the system's
\* own storage, whatever form of output the provider returned.
C28_CompletedVideoHasDurablePath ==
    \A j \in 1..Len(jobs) :
        (IsVideo(j) /\ jobs[j].status = "completed" /\ exec[j].pc = "idle"
            /\ HasScene(project, jobs[j].scene_id)) =>
           SceneOf(project, jobs[j].scene_id).assets.video_path \in DurablePaths

\* what the document holds as the video of a scene: the video_path of its
\* assets and the value under the key "assets.video_path"
VideoValues(doc, scene_id) ==
    LET scene == SceneOf(doc, scene_id)
    IN <<scene.assets.video_path,
         IF "assets.video_path" \in DOMAIN scene THEN scene["assets.video_path"] ELSE "">>

\* C29: from the failure of the upload in generate_video_for_scene to the
\* return of the invocation, the Job Record is not completed, no scene has an
\* active_job of this job that is completed, every write of the invocation
\* leaves what the document it read holds as the scene's video, and the
\* invocation returns with the Job Record failed with the error of the upload.
C29_UploadFailureFailsJob ==
    [][\A j \in 1..MaxJobs :
          (j <= Len(jobs) /\ IsVideo(j) /\ exec'[j].raised = "upload") =>
              /\ jobs'[j].status # "completed"
              /\ \A i \in 1..Len(project'.scenes) :
                    ~(/\ project'.scenes[i].active_job.job_id = JobId(j)
                      /\ project'.scenes[i].active_job.status = "completed")
              /\ (exec[j].pc = "write" /\ exec'[j] # exec[j]) =>
                     VideoValues(project', jobs[j].scene_id) =
                         VideoValues([scenes |-> exec[j].snap], jobs[j].scene_id)
              /\ (exec[j].pc # "write" /\ exec'[j] # exec[j]) => project' = project
              /\ (exec'[j].pc = "idle" =>
                     (jobs'[j].status = "failed" /\ jobs'[j].error_message = UploadError))]_vars

\* C29 witness: an invocation of generate_video_for_scene whose generation
\* call returned a URL and whose upload raised has returned, the scene still
\* in the document.
C29_Witness ==
    \E j \in 1..Len(jobs) :
        /\ IsVideo(j) /\ exec[j].raised = "upload" /\ exec[j].pc = "idle"
        /\ exec[j].video_url \in HttpUrls /\ genCalls[j] >= 1
        /\ jobs[j].status = "failed"
        /\ HasScene(project, jobs[j].scene_id)
        /\ SceneOf(project, jobs[j].scene_id).active_job.status = "failed"

\* C30: is_job_stale(job) is true exactly when last_update is more than the
\* default threshold of 5 minutes before now and the status is queued or
\* processing; it is false for a completed or failed job.
C30_StaleOnlyWhileActive ==
    stale.called =>
        (stale.result <=> (/\ stale.now - stale.last_update > 5
                           /\ stale.status \in {"queued", "processing"}))

\* a step with which a project handler takes up a request of the user
ProjectRequest(user_id) ==
    \/ projects_get_project(user_id)
    \/ projects_update_project(user_id)
    \/ projects_delete_project(user_id)
    \/ \E n \in SceneNumberInputs : add_scene_get(user_id, n)
    \/ \E s \in StoredScenes : \E d \in Durations : update_scene_get(user_id, s, d)
    \/ \E s \in StoredScenes : \E f \in BOOLEAN : generate_video_get(user_id, s, f)
    \/ \E s \in StoredScenes : generate_composition_get(user_id, s)

\* C31: a request of a user who is not the project's user_id is answered 404
\* in the step that takes it up, without the project in the answer, with the
\* project document and the Job Records as they were and nothing of the
\* request left to run; every request that runs on is the owner's.
C31_ForeignRequestTouchesNothing ==
    /\ [][\A u \in Users :
            (u # project.user_id /\ ProjectRequest(u)) =>
                /\ project' = project
                /\ jobs' = jobs
                /\ req'.op = "idle" /\ req'.user = u
                /\ req'.resp.code = 404 /\ ~req'.returned]_vars
    /\ [](req.op # "idle" => (project.exists /\ req.user = project.user_id))

\* C31 witness: the other user has been answered 404 on a project that
\* exists and has a scene.
C31_Witness ==
    /\ req.user \in Users \ {Owner} /\ req.resp.code = 404
    /\ project.exists /\ Len(project.scenes) > 0

\* C32: in the stored project every scene's scene_number is its position in
\* scenes, counted from 1.
C32_SceneNumberIsPosition ==
    \A i \in 1..Len(project.scenes) : project.scenes[i].scene_number = i

\* C33: POST /api/video/generate with n >= 1 scenes that all have a seed
\* image creates the job record pending with total_scenes n and n pending
\* clips of progress 0 and answers 200 with its id; with no scenes or a scene
\* without a seed image it answers 400 and creates nothing; GET status
\* answers 200 with the job for the id of the record and 404 for any other.
C33_VideoJobCreatedOrRejected ==
    [][/\ \A urls \in RequestScenes :
             video_generate(VideoGenerationRequest(urls)) =>
                 IF urls # <<>> /\ (\A i \in 1..Len(urls) : urls[i] # "")
                 THEN /\ ~vjob.exists /\ vjob'.exists
                      /\ vjob'.status = "pending" /\ vjob'.total_scenes = Len(urls)
                      /\ Len(vjob'.clips) = Len(urls)
                      /\ \A i \in 1..Len(urls) :
                            /\ vjob'.clips[i].scene_number = i
                            /\ vjob'.clips[i].status = "pending"
                            /\ vjob'.clips[i].progress_percent = 0
                      /\ req'.resp.code = 200 /\ req'.resp.job_id = vjob'.job_id
                 ELSE req'.resp.code = 400 /\ vjob' = vjob /\ vproc' = vproc
       /\ \A id \in {VideoJobId, UnknownJobId} :
             get_video_status(id) =>
                 IF vjob.exists /\ id = vjob.job_id
                 THEN req'.resp.code = 200 /\ req'.resp.job_id = id
                 ELSE req'.resp.code = 404]_vars

\* C33 witness: the status of the created job has been found after a request
\* with two scenes, the job being worked on.
C33_Witness ==
    /\ req.call = "get_video_status" /\ req.resp.code = 200 /\ req.resp.job_id = VideoJobId
    /\ vjob.exists /\ vjob.total_scenes = 2 /\ vproc # "none"

\* the composition object of the stored scene, 0 while the scene has none
SceneComposition(doc, scene_id) ==
    IF scene_id \in SceneIds(doc.scenes)
    THEN doc.scenes[SceneIndex(doc.scenes, scene_id)].composition
    ELSE 0

\* C34: when an invocation of generate_composition_for_scene returns with its
\* Job Record failed, the scene's composition is the one the scene had when
\* the invocation began.
C34_FailedCompositionUnchanged ==
    [][\A j \in 1..MaxJobs :
          (Returns(j) /\ IsComposition(j) /\ jobs'[j].status = "failed") =>
              SceneComposition(project', jobs[j].scene_id) = exec[j].before.composition]_vars

\* the active_job of the stored scene is that of a scene the batch has done with
SceneDone(doc, scene_id) ==
    LET job == doc.scenes[SceneIndex(doc.scenes, scene_id)].active_job
    IN \/ job.status = "completed" /\ job.progress = 100
       \/ job.status = "failed" /\ job.progress = 0

\* C35: when an invocation of generate_videos_for_all_scenes on a job with
\* scene ids returns, results has one entry per scene id of the job, in the
\* job's order, each completed or failed; every one of these scenes that the
\* project holds has an active_job completed with progress 100 or failed with
\* progress 0; and the Job Record is completed with progress 100 and these
\* results.
C35_BatchProcessesEveryScene ==
    [][\A j \in 1..MaxJobs :
          (Returns(j) /\ IsMulti(j) /\ jobs[j].scene_ids # <<>>) =>
              LET ids == jobs[j].scene_ids
                  results == exec'[j].results
              IN /\ Len(results) = Len(ids)
                 /\ \A i \in 1..Len(ids) :
                       /\ results[i].scene_id = ids[i]
                       /\ results[i].status \in {"completed", "failed"}
                       /\ ids[i] \in SceneIds(project'.scenes) => SceneDone(project', ids[i])
                 /\ jobs'[j].status = "completed" /\ jobs'[j].progress = 100
                 /\ jobs'[j].results = results]_vars

\* C36: once _process_video_generation has returned, the video job's status
\* is completed or failed.
C36_VideoJobEndsFinal ==
    (vjob.exists /\ vproc = "done") => vjob.status \in {"completed", "failed"}

\* C37: after every _update_clip_progress call on a video job,
\* completed_scenes is the number of clips with status completed,
\* failed_scenes the number with status failed, and the two together do not
\* exceed total_scenes.
C37_ClipCountsMatch ==
    [][\A n \in 1..MaxClips : \A st \in {"processing", "completed", "failed"} :
          progress_callback(n, st) =>
              /\ vjob'.completed_scenes = CountClips(vjob'.clips, "completed")
              /\ vjob'.failed_scenes = CountClips(vjob'.clips, "failed")
              /\ vjob'.completed_scenes + vjob'.failed_scenes <= vjob'.total_scenes]_vars

\* C37 witness: a job of three clips with one completed, one failed and one
\* still processing, the counts 1 and 1.
C37_Witness ==
    /\ vjob.exists /\ vproc = "generating" /\ Len(vjob.clips) = 3
    /\ vjob.completed_scenes = 1 /\ vjob.failed_scenes = 1
    /\ CountClips(vjob.clips, "processing") = 1

C39_FailedDispatchLeavesActiveJob ==
    [][(generate_video_trigger /\ req'.resp.code >= 400
        /\ req.sid \in SceneIds(project'.scenes)) =>
            project'.scenes[SceneIndex(project'.scenes, req.sid)].active_job = req.prior]_vars

\* C40: with the scene generations of one video job reporting in any
\* interleaving, every _update_clip_progress gives the clip of its
\* scene_number the reported status (with the video_url or the error
\* reported) and leaves every other clip as the earlier reports left it, and
\* the end of the task changes no clip: when all callbacks have finished,
\* every clip holds the last status reported for its scene_number.
C40_NoClipUpdateLost ==
    [][/\ \A n \in 1..MaxClips : \A st \in {"processing", "completed", "failed"} :
             progress_callback(n, st) =>
                 /\ Len(vjob'.clips) = Len(vjob.clips)
                 /\ vjob'.clips[n].scene_number = n
                 /\ vjob'.clips[n].status = st
                 /\ st = "completed" => vjob'.clips[n].video_url = ClipUrl(n)
                 /\ st = "failed" => vjob'.clips[n].error = GenerationError
                 /\ \A m \in 1..Len(vjob.clips) : m # n => vjob'.clips[m] = vjob.clips[m]
       /\ (vjob.exists /\ vproc' # vproc) => vjob'.clips = vjob.clips]_vars

\* C40 witness: the task of a job of three clips has returned after the
\* second scene reported failed and the first and the third completed.
C40_Witness ==
    /\ vjob.exists /\ vproc = "done" /\ Len(vjob.clips) = 3
    /\ vjob.clips[1].status = "completed" /\ vjob.clips[1].video_url = ClipUrl(1)
    /\ vjob.clips[2].status = "failed" /\ vjob.clips[2].error = GenerationError
    /\ vjob.clips[3].status = "completed" /\ vjob.clips[3].video_url = ClipUrl(3)

====
